---- MODULE Spec2Model ----
(***************************************************************************)
(* Pairing and access control of the Telegram channel.                     *)
(*                                                                         *)
(* The repository holds three pairing stores and several allow-list        *)
(* stores, each with a backing file of its own:                            *)
(*   - src/src/telegram/pairing-store.ts : lock-guarded store              *)
(*       (generatePairingCode, getPendingPairings, approvePairing,         *)
(*        rejectPairing, cleanExpired), used by src/unnamed/part_003;      *)
(*   - src/unnamed/part_006, lines 1-159  : upsertPairingRequest, no lock; *)
(*   - src/unnamed/part_006, lines 161-309: synchronous store with the     *)
(*       PairingNotFoundError / PairingExpiredError kinds, no lock;        *)
(*   - src/unnamed/part_008, lines 1-258 : allow-list store with a lock of *)
(*       its own (withFileLock).                                           *)
(* Each store is modelled with its own variables; a specification lets     *)
(* the processes run the operations of the stores it is about, and the     *)
(* files of the other stores do not change:                                *)
(*   Spec       lock-guarded pairing store, two processes, one operation   *)
(*              each, crashes and expiry;                                  *)
(*   SpecSeq    the same store, one process, operations in sequence;       *)
(*   SpecLock   its lock protocol, three processes, crashes;               *)
(*   SpecUpsert the upsert store, two processes;                           *)
(*   SpecSync   the synchronous store, two command-line processes;         *)
(*   SpecExit   pairing store and allow-list store, one process,           *)
(*              operations in sequence, file-system failures.              *)
(***************************************************************************)
EXTENDS Integers, Sequences, FiniteSets, TLC

\* ------------------------------------------------------------------------
\* Program constants (src/src/telegram/pairing-store.ts)
MAX_PENDING_PER_CHAT == 3
PAIRING_TTL_MS == 3600000
LOCK_TIMEOUT_MS == 5000

\* ------------------------------------------------------------------------
\* Bounds of the model
\* Clock advances per behaviour.
MaxTicks == 2
\* Processes that may be killed per behaviour.
MaxCrashes == 1
\* Store operations the long-lived process of SpecSeq runs, one after the
\* other.
MaxOps == 4
\* Codes createUniqueCode can draw (stands for the 31^8 strings).
NumCodes == 3
\* Codes generatePairingCode of the upsert store can draw.
NumUpsertCodes == 4

\* Operating-system processes sharing the store files: the bot and the
\* operator's command-line invocations.
Procs == {"p1", "p2", "p3"}
\* Processes taking part in the store specification.
StoreProcs == {"p1", "p2"}
Chats == {"k1"}
Users == {"u1", "u2"}
\* Chats and senders of the upsert store.
UpsertChats == {"k1", "k2"}
UpsertUsers == {"u1", "u2", "u3", "u4"}

NoProc == "none"

\* A code string: id names the string up to letter case, lc says whether it
\* is spelled in lower case.  Code 0 is a string holding a character outside
\* CODE_CHARSET: no request ever carries it.
Codes == 1..NumCodes
BogusCode == 0
CodeStr(i, l) == [id |-> i, lc |-> l]
\* The codes an operator types: a code in upper case, the same in lower case,
\* another code, and a string that is no code.
CodeInputs == {CodeStr(1, FALSE), CodeStr(1, TRUE), CodeStr(2, FALSE), CodeStr(BogusCode, FALSE)}

VARIABLES
  now,      \* Date.now()
  ticks,    \* clock advances so far
  crashes,  \* processes killed so far
  lock,     \* LOCK_FILE of the pairing store
  store,    \* STORE_FILE of the pairing store
  tmp,      \* STORE_FILE.tmp
  pc,       \* where each process stands
  op,       \* the operation each process runs
  ops,      \* operations each process has completed and left behind
  start,    \* acquireLock's start
  pend,     \* the entries the handler hands to writeStore
  ret,      \* what the operation returns or throws
  obs,      \* what the handler found in the file it read (history)
  bfile,    \* PAIRING_PATH of the upsert store (part_006, line 9)
  cfile,    \* TELEGRAM_PAIRING_FILE of the synchronous store (part_006, line 166)
  afile,    \* ALLOWLIST_PATH of the allow-list store (part_008, line 9)
  alock,    \* LOCK_PATH of the allow-list store (part_008, line 10)
  bfile0,   \* what PAIRING_PATH held at the start (history)
  efile,    \* the chats of ALLOWLIST_PATH of the token allow-list store (part_008, line 273)
  botConfig, \* the configuration the bot runs with
  decision, \* the last evaluation of the access policy: its message and its result
  approved, \* the requests the approve command has promoted (history)
  ledger,   \* what the commands did to the allow-list store (history)
  call,     \* the last call of a function followed on its own: input and result
  inbox     \* the message handlers registered, and those the last message reached

vars == <<now, ticks, crashes, lock, store, tmp, pc, op, ops, start, pend, ret, obs,
          bfile, cfile, afile, alock, bfile0, efile, botConfig, decision, approved,
          ledger, call, inbox>>

\* The state of the access policy, which no store operation touches.
policyState == <<efile, botConfig, decision, approved, ledger, call, inbox>>

\* The files of the other stores, which the operations of the lock-guarded
\* pairing store do not touch.
elsewhere == <<bfile, cfile, afile, alock, bfile0, policyState>>

\* ------------------------------------------------------------------------
\* Files
Absent == [st |-> "absent", entries |-> <<>>]
Partial == [st |-> "partial", entries |-> <<>>]
Doc(entries) == [st |-> "ok", entries |-> entries]

NoLock == [exists |-> FALSE, creator |-> NoProc, pid |-> NoProc, mtime |-> 0]

\* ------------------------------------------------------------------------
\* Operations and results
NoEntry == [type |-> "", value |-> ""]
NoOp == [kind |-> "none", chatId |-> "", userId |-> "", code |-> CodeStr(BogusCode, FALSE), phase |-> 0,
         entry |-> NoEntry, username |-> ""]
NoRet == [kind |-> "none", code |-> CodeStr(BogusCode, FALSE), entries |-> <<>>, at |-> 0, err |-> ""]
RetCode(c, t) == [NoRet EXCEPT !.kind = "code", !.code = c, !.at = t]
RetEntries(es, t) == [NoRet EXCEPT !.kind = "entries", !.entries = es, !.at = t]
RetEntry(e, t) == [NoRet EXCEPT !.kind = "entry", !.entries = <<e>>, !.code = e.code, !.at = t]
RetNull(t) == [NoRet EXCEPT !.kind = "null", !.at = t]
RetBool(b, t) == [NoRet EXCEPT !.kind = IF b THEN "true" ELSE "false", !.at = t]
RetVoid(t) == [NoRet EXCEPT !.kind = "void", !.at = t]
Threw(e, t) == [NoRet EXCEPT !.kind = "threw", !.err = e, !.at = t]

Alive(p) == pc[p] # "crashed"

\* ------------------------------------------------------------------------
\* Strings that come from outside: allow-list entries of the configuration,
\* what the operator types, ids and usernames of Telegram.  A string is an
\* optional prefix ending in ":", an optional "@", and a body without them;
\* the empty string also stands for undefined.
Raw(pre, at, body) == [pre |-> pre, at |-> at, body |-> body]

Str(body) == Raw("", FALSE, body)

\* The characters of the string.
Text(x) == x.pre \o (IF x.at THEN "@" ELSE "") \o x.body

\* String.prototype.toLowerCase: the bodies spelled with capitals are
\* "Alice" and "Bot", the prefixes are in lower case.
toLowerCase(x) ==
  x.pre \o (IF x.at THEN "@" ELSE "")
        \o (CASE x.body = "Alice" -> "alice" [] x.body = "Bot" -> "bot" [] OTHER -> x.body)

\* String.prototype.trim: the body " " is the one made of whitespace.
trim(x) == IF x.body = " " THEN [x EXCEPT !.body = ""] ELSE x

\* The bodies matching /^\d+$/, and those matching /^-?\d+$/.
Digits == {"42", "77"}

NumericIds == Digits \cup {"-100", "-200"}

\* AccessResult; a rejected promise has kind "threw".
AccessResult(allowed, reason, pairingCode) ==
  [kind |-> IF allowed THEN "allow" ELSE "deny", reason |-> reason, code |-> pairingCode, err |-> ""]

\* The configuration of a bot: DM policy pairing, group policy allowlist,
\* nobody listed.
DefaultConfig ==
  [dmPolicy |-> "pairing", allowFrom |-> <<>>, groupPolicy |-> "allowlist", groupAllowFrom |-> <<>>,
   requireMention |-> FALSE, mentionKeywords |-> <<Str("hey")>>, botUsername |-> Str("Bot")]

\* No message has been evaluated yet.
NoDecision ==
  [engine |-> "none", chatType |-> "", message |-> <<>>,
   listed |-> FALSE, wasApproved |-> FALSE, wasCut |-> FALSE, result |-> AccessResult(FALSE, "", CodeStr(BogusCode, FALSE))]

\* History of the commands on the allow-list store: the entries a completed
\* command wrote, the entries a command was asked to remove, and the
\* request whose approval was last cut short between the two stores.
NoLedger == [granted |-> {}, revoked |-> {}, cut |-> {}]

\* No function has been called yet.
NoCall == [kind |-> "none"]

\* No handler is registered, no message came in.
NoInbox == [handlers |-> {}, invoked |-> {}]

\* History of a handler's read, kept for stating properties: for approve and
\* reject, whether the code typed was in the file and expired ("never" for
\* the string that is no code); for generate, the open request the identity
\* already had.
NoObs == [status |-> "none", boundary |-> FALSE, had |-> FALSE, hadCode |-> CodeStr(BogusCode, FALSE)]

\* ------------------------------------------------------------------------
\* Pure functions of pairing-store.ts

\* A code string left in the case it was typed in.
keepCase(s) == s

\* String.prototype.toUpperCase on a code string.
toUpperCase(s) == [s EXCEPT !.lc = FALSE]

\* normalizeEntry on a well-typed record: the code is upper-cased.
normalizeEntry(e) == [e EXCEPT !.code = toUpperCase(e.code)]

\* readStore on a parseable document; a missing file reads as no entries.
readStore(file) ==
  IF file.st = "absent" THEN <<>>
  ELSE [i \in 1..Len(file.entries) |-> normalizeEntry(file.entries[i])]

\* Whether readStore throws: JSON.parse rejects a partially written document.
readStoreThrows(file) == file.st = "partial"

\* The entries kept by pruneExpired at time t, with >= in place of >.
pruneExpiredKeepsBoundary(entries, t) ==
  LET filtered == SelectSeq(entries, LAMBDA e : e.expiresAt >= t)
  IN [entries |-> filtered, removed |-> Len(filtered) # Len(entries)]

pruneExpired(entries, t) ==
  LET filtered == SelectSeq(entries, LAMBDA e : e.expiresAt > t)
  IN [entries |-> filtered, removed |-> Len(filtered) # Len(entries)]

\* createUniqueCode without the collision check.
createAnyCode(entries) == {CodeStr(i, FALSE) : i \in Codes}

\* The codes createUniqueCode can return: any string over CODE_CHARSET that no
\* entry carries.
createUniqueCode(entries) ==
  {CodeStr(i, FALSE) : i \in Codes} \ {entries[i].code : i \in 1..Len(entries)}

\* Array.prototype.findIndex for "entry.code === code", 1-based; 0 for -1.
findIndexByCode(entries, code) ==
  LET hits == {i \in 1..Len(entries) : entries[i].code = code}
  IN IF hits = {} THEN 0 ELSE CHOOSE i \in hits : \A j \in hits : i <= j

\* entries.splice(index, 1)
splice(entries, index) ==
  [i \in 1..(Len(entries) - 1) |-> IF i < index THEN entries[i] ELSE entries[i + 1]]

Plan(act, entries, r) == [act |-> act, pend |-> entries, ret |-> r]

\* generatePairingCode without the check of pendingForChat.length.
generatePairingCodeNoQuota(read, chatId, userId, username, t, code) ==
  LET entries == pruneExpired(read, t).entries
      newEntry == [code |-> code, chatId |-> chatId, userId |-> userId, username |-> username,
                   createdAt |-> t, expiresAt |-> t + PAIRING_TTL_MS]
  IN Plan("write", Append(entries, newEntry), RetCode(code, t))

\* Body of generatePairingCode's handler, given the entries read, the clock
\* and the code createUniqueCode drew.
generatePairingCode(read, chatId, userId, username, t, code) ==
  LET entries == pruneExpired(read, t).entries
      pendingForChat == SelectSeq(entries, LAMBDA e : e.chatId = chatId)
      newEntry == [code |-> code, chatId |-> chatId, userId |-> userId, username |-> username,
                   createdAt |-> t, expiresAt |-> t + PAIRING_TTL_MS]
  IN IF Len(pendingForChat) >= MAX_PENDING_PER_CHAT
     THEN Plan("throw", <<>>, Threw("quota", t))
     ELSE Plan("write", Append(entries, newEntry), RetCode(code, t))

\* getPendingPairings that returns the pruned list without writeStore.
getPendingPairingsUnsaved(read, t) ==
  Plan("return", read, RetEntries(pruneExpired(read, t).entries, t))

getPendingPairings(read, t) ==
  LET pr == pruneExpired(read, t)
  IN Plan(IF pr.removed THEN "write" ELSE "return", pr.entries, RetEntries(pr.entries, t))

\* approvePairing returning the request without removing it.
approvePairingKeeps(read, code, t) ==
  LET index == findIndexByCode(read, toUpperCase(code))
  IN IF index = 0 THEN Plan("return", read, RetNull(t))
     ELSE Plan("return", read, RetEntry(read[index], t))

approvePairing(read, code, t) ==
  LET pr == pruneExpired(read, t)
      index == findIndexByCode(pr.entries, toUpperCase(code))
  IN IF index = 0
     THEN Plan(IF pr.removed THEN "write" ELSE "return", pr.entries, RetNull(t))
     ELSE Plan("write", splice(pr.entries, index), RetEntry(pr.entries[index], t))

rejectPairing(read, code, t) ==
  LET pr == pruneExpired(read, t)
      index == findIndexByCode(pr.entries, toUpperCase(code))
  IN IF index = 0
     THEN Plan(IF pr.removed THEN "write" ELSE "return", pr.entries, RetBool(FALSE, t))
     ELSE Plan("write", splice(pr.entries, index), RetBool(TRUE, t))

cleanExpired(read, t) ==
  LET pr == pruneExpired(read, t)
  IN Plan(IF pr.removed THEN "write" ELSE "return", pr.entries, RetVoid(t))

\* The handler a process runs inside withLock.  ensurePairingCode (part_003)
\* runs getPendingPairings, then generatePairingCode when it found no entry.
Handler(o, read, t, code) ==
  CASE o.kind = "generate" -> generatePairingCode(read, o.chatId, o.userId, o.username, t, code)
    [] o.kind = "list" -> getPendingPairings(read, t)
    [] o.kind = "approve" -> approvePairing(read, o.code, t)
    [] o.kind = "reject" -> rejectPairing(read, o.code, t)
    [] o.kind = "clean" -> cleanExpired(read, t)
    [] o.kind = "ensure" /\ o.phase = 1 -> getPendingPairings(read, t)
    [] o.kind = "ensure" /\ o.phase = 2 -> generatePairingCode(read, o.chatId, o.userId, o.username, t, code)

Observe(o, read, t) ==
  IF o.kind \in {"approve", "reject"}
  THEN LET hits == {i \in 1..Len(read) : read[i].code = toUpperCase(o.code)}
       IN [NoObs EXCEPT
             !.status = IF o.code.id = BogusCode THEN "never"
                        ELSE IF hits = {} THEN "absent"
                        ELSE IF \E i \in hits : read[i].expiresAt > t THEN "live"
                        ELSE "expired",
             !.boundary = \E i \in hits : read[i].expiresAt = t]
  ELSE IF o.kind \in {"generate", "ensure"}
  THEN LET open == {i \in 1..Len(read) : /\ read[i].chatId = o.chatId
                                          /\ read[i].userId = o.userId
                                          /\ read[i].expiresAt > t}
       IN IF open = {} THEN NoObs
          ELSE [NoObs EXCEPT !.had = TRUE,
                             !.hadCode = read[CHOOSE i \in open : \A j \in open : i <= j].code]
  ELSE NoObs

DrawsCode(o) == o.kind = "generate" \/ (o.kind = "ensure" /\ o.phase = 2)

\* ------------------------------------------------------------------------
\* The command line of src/unnamed/part_000, which awaits the operations of
\* the lock-guarded store.  A message is named by its leading words.

\* handlePairingError: the message printed for the error caught.
handlePairingError(err) ==
  CASE err = "PairingNotFoundError" -> "was not found"
    [] err = "PairingExpiredError" -> "expired on"
    [] OTHER -> err

\* approveCommand on what approvePairing returned or threw: "pairing.userId"
\* on null throws a TypeError, which the catch block hands on.
approveCommand(r) ==
  CASE r.kind = "entry" -> "Approved"
    [] r.kind = "null" -> handlePairingError("TypeError")
    [] OTHER -> handlePairingError(r.err)

\* rejectCommand on what rejectPairing returned or threw: the boolean
\* returned is not looked at.
rejectCommand(r) ==
  IF r.kind \in {"true", "false"} THEN "Rejected" ELSE handlePairingError(r.err)

CliMessage(kind, r) == IF kind = "approve" THEN approveCommand(r) ELSE rejectCommand(r)

\* ------------------------------------------------------------------------
\* Initial states: no file exists yet, no process has started anything.
InitOf(active, configs) ==
  /\ alock = NoLock
  /\ now = 0
  /\ ticks = 0
  /\ crashes = 0
  /\ lock = NoLock
  /\ store = Absent
  /\ tmp = Absent
  /\ pc = [p \in Procs |-> IF p \in active THEN "idle" ELSE "off"]
  /\ op = [p \in Procs |-> NoOp]
  /\ ops = [p \in Procs |-> 0]
  /\ start = [p \in Procs |-> 0]
  /\ pend = [p \in Procs |-> <<>>]
  /\ ret = [p \in Procs |-> NoRet]
  /\ obs = [p \in Procs |-> NoObs]
  /\ botConfig \in configs
  /\ decision = NoDecision
  /\ approved = {}
  /\ call = NoCall
  /\ inbox = NoInbox

Init == InitOf(StoreProcs, {DefaultConfig}) /\ bfile = Absent /\ bfile0 = Absent /\ cfile = Absent /\ efile = Absent /\ afile = Absent /\ ledger = NoLedger

InitSeq == InitOf({"p1"}, {DefaultConfig}) /\ bfile = Absent /\ bfile0 = Absent /\ cfile = Absent /\ efile = Absent /\ afile = Absent /\ ledger = NoLedger

InitLock == InitOf(Procs, {DefaultConfig}) /\ bfile = Absent /\ bfile0 = Absent /\ cfile = Absent /\ efile = Absent /\ afile = Absent /\ ledger = NoLedger

\* ------------------------------------------------------------------------
\* A process calls a store operation: withLock, then acquireLock's
\* "const start = Date.now()".
Begin(p, o) ==
  /\ pc[p] = "idle"
  /\ op' = [op EXCEPT ![p] = o]
  /\ start' = [start EXCEPT ![p] = now]
  /\ pc' = [pc EXCEPT ![p] = "open"]
  /\ UNCHANGED <<now, ticks, crashes, lock, store, tmp, ops, pend, ret, obs, elsewhere>>

\* A long-lived process is ready for its next operation.
Again(p) ==
  /\ pc[p] = "done"
  /\ ops[p] + 1 < MaxOps
  /\ ops' = [ops EXCEPT ![p] = @ + 1]
  /\ pc' = [pc EXCEPT ![p] = "idle"]
  /\ op' = [op EXCEPT ![p] = NoOp]
  /\ ret' = [ret EXCEPT ![p] = NoRet]
  /\ pend' = [pend EXCEPT ![p] = <<>>]
  /\ start' = [start EXCEPT ![p] = 0]
  /\ obs' = [obs EXCEPT ![p] = NoObs]
  /\ UNCHANGED <<now, ticks, crashes, lock, store, tmp, elsewhere>>

BeginGenerate(p) ==
  \E k \in Chats, u \in Users :
    Begin(p, [NoOp EXCEPT !.kind = "generate", !.chatId = k, !.userId = u])

BeginList(p) == Begin(p, [NoOp EXCEPT !.kind = "list"])

BeginApprove(p) ==
  \E c \in CodeInputs : Begin(p, [NoOp EXCEPT !.kind = "approve", !.code = c])

BeginReject(p) ==
  \E c \in CodeInputs : Begin(p, [NoOp EXCEPT !.kind = "reject", !.code = c])

BeginClean(p) == Begin(p, [NoOp EXCEPT !.kind = "clean"])

\* ensurePairingCode(chatId, userId) of part_003.
BeginEnsure(p) ==
  \E k \in Chats, u \in Users :
    Begin(p, [NoOp EXCEPT !.kind = "ensure", !.chatId = k, !.userId = u, !.phase = 1])

\* ------------------------------------------------------------------------
\* acquireLock, one action per file-system call.

\* The operation ends: it returned or threw r.
Ends(p, r) ==
  /\ pc' = [pc EXCEPT ![p] = "done"]
  /\ ret' = [ret EXCEPT ![p] = r]

\* The retry loop without its timeout check.
DelayAlways(p) == pc' = [pc EXCEPT ![p] = "delay"] /\ UNCHANGED ret

\* "if (Date.now() - start > LOCK_TIMEOUT_MS) throw ...; await delay(...)"
TimeoutOrDelay(p) ==
  IF now - start[p] > LOCK_TIMEOUT_MS
  THEN Ends(p, Threw("timeout", now))
  ELSE pc' = [pc EXCEPT ![p] = "delay"] /\ UNCHANGED ret

\* fs.open(LOCK_FILE, 'wx'): creates the file, empty, or fails with EEXIST.
LockOpen(p) ==
  /\ pc[p] = "open"
  /\ IF lock.exists
     THEN /\ pc' = [pc EXCEPT ![p] = "readpid"]
          /\ UNCHANGED lock
     ELSE /\ pc' = [pc EXCEPT ![p] = "lockwrite"]
          /\ lock' = [exists |-> TRUE, creator |-> p, pid |-> NoProc, mtime |-> now]
  /\ UNCHANGED <<now, ticks, crashes, store, tmp, op, ops, start, pend, ret, obs, elsewhere>>

\* handle.writeFile({pid, createdAt}): the write goes to the file p created,
\* which LOCK_FILE names only if nobody unlinked it since.
LockWrite(p) ==
  /\ pc[p] = "lockwrite"
  /\ lock' = IF lock.exists /\ lock.creator = p
             THEN [lock EXCEPT !.pid = p, !.mtime = now]
             ELSE lock
  /\ pc' = [pc EXCEPT ![p] = "h_read"]
  /\ UNCHANGED <<now, ticks, crashes, store, tmp, op, ops, start, pend, ret, obs, elsewhere>>

\* handle.writeFile fails: close, unlink(LOCK_FILE), rethrow; withLock has
\* not entered its try block, the operation throws.
LockWriteFail(p) ==
  /\ pc[p] = "lockwrite"
  /\ lock' = NoLock
  /\ Ends(p, Threw("io", now))
  /\ UNCHANGED <<now, ticks, crashes, store, tmp, op, ops, start, pend, obs, elsewhere>>

\* isProcessRunning with every pid reported as running.
isProcessRunningAlways(pid) == TRUE

\* isProcessRunning: process.kill(pid, 0) succeeds for a process that exists.
isProcessRunning(pid) == Alive(pid)

\* readLockOwnerPid, then isProcessRunning on the pid read.
LockReadPid(p) ==
  /\ pc[p] = "readpid"
  /\ LET lockOwnerPid == IF lock.exists THEN lock.pid ELSE NoProc
     IN IF lockOwnerPid = NoProc
        THEN pc' = [pc EXCEPT ![p] = "stat"] /\ UNCHANGED ret
        ELSE IF ~isProcessRunning(lockOwnerPid)
             THEN pc' = [pc EXCEPT ![p] = "unlink"] /\ UNCHANGED ret
             ELSE TimeoutOrDelay(p)
  /\ UNCHANGED <<now, ticks, crashes, lock, store, tmp, op, ops, start, pend, obs, elsewhere>>

\* isLockFileStale: fs.stat, false on ENOENT.
isLockFileStale == lock.exists /\ now - lock.mtime > LOCK_TIMEOUT_MS

LockStat(p) ==
  /\ pc[p] = "stat"
  /\ IF isLockFileStale
     THEN pc' = [pc EXCEPT ![p] = "unlink"] /\ UNCHANGED ret
     ELSE TimeoutOrDelay(p)
  /\ UNCHANGED <<now, ticks, crashes, lock, store, tmp, op, ops, start, pend, obs, elsewhere>>

\* fs.unlink(LOCK_FILE) of the reclaim branch; ENOENT counts as removed.
LockUnlink(p) ==
  /\ pc[p] = "unlink"
  /\ lock' = NoLock
  /\ pc' = [pc EXCEPT ![p] = "open"]
  /\ UNCHANGED <<now, ticks, crashes, store, tmp, op, ops, start, pend, ret, obs, elsewhere>>

\* delay(LOCK_RETRY_DELAY_MS) is over; how long the process slept is the
\* scheduler's choice (Tick).
LockDelay(p) ==
  /\ pc[p] = "delay"
  /\ pc' = [pc EXCEPT ![p] = "open"]
  /\ UNCHANGED <<now, ticks, crashes, lock, store, tmp, op, ops, start, pend, ret, obs, elsewhere>>

\* ------------------------------------------------------------------------
\* withLock's handler, one action per file-system call.

\* withLock without its finally block: a handler that throws leaves at once.
withLockNoFinally(act) == IF act = "throw" THEN "done" ELSE "release"

\* Where withLock goes when the handler returned or threw: "finally" runs
\* releaseLock on both paths.
withLock(act) == "release"

Leaves(p, act, r) ==
  /\ pc' = [pc EXCEPT ![p] = withLock(act)]
  /\ ret' = [ret EXCEPT ![p] = r]

\* The codes the handler may draw: createUniqueCode runs only when
\* generatePairingCode passed the quota check.
CodeChoices(o, read, t) ==
  LET entries == pruneExpired(read, t).entries
  IN IF DrawsCode(o) /\
        Len(SelectSeq(entries, LAMBDA e : e.chatId = o.chatId)) < MAX_PENDING_PER_CHAT
     THEN createUniqueCode(entries)
     ELSE {CodeStr(BogusCode, FALSE)}

\* readStore, then the handler's synchronous body up to writeStore or to its
\* return or throw.
HRead(p) ==
  /\ pc[p] = "h_read"
  /\ IF readStoreThrows(store)
     THEN Leaves(p, "throw", Threw("parse", now)) /\ UNCHANGED pend
     ELSE \E code \in CodeChoices(op[p], readStore(store), now) :
            LET plan == Handler(op[p], readStore(store), now, code)
            IN IF plan.act = "write"
               THEN /\ pend' = [pend EXCEPT ![p] = plan.pend]
                    /\ ret' = [ret EXCEPT ![p] = plan.ret]
                    /\ pc' = [pc EXCEPT ![p] = "w_open"]
               ELSE Leaves(p, plan.act, plan.ret) /\ UNCHANGED pend
  /\ obs' = [obs EXCEPT ![p] = Observe(op[p], readStore(store), now)]
  /\ UNCHANGED <<now, ticks, crashes, lock, store, tmp, op, ops, start, elsewhere>>

\* fs.readFile fails with an error other than ENOENT: readStore rethrows.
HReadFail(p) ==
  /\ pc[p] = "h_read"
  /\ Leaves(p, "throw", Threw("io", now))
  /\ UNCHANGED <<now, ticks, crashes, lock, store, tmp, op, ops, start, pend, obs, elsewhere>>

\* writeStore: fs.open(tmpPath, 'w') creates or truncates the file.
WOpen(p) ==
  /\ pc[p] = "w_open"
  /\ tmp' = Partial
  /\ pc' = [pc EXCEPT ![p] = "w_write"]
  /\ UNCHANGED <<now, ticks, crashes, lock, store, op, ops, start, pend, ret, obs, elsewhere>>

\* writeStore: handle.writeFile(payload), handle.close().  The handle names
\* the file opened: STORE_FILE.tmp, or STORE_FILE if another writer renamed
\* it meanwhile.  Byte-level mixing of two writers is not modelled: the file
\* holds the last payload written.
WWrite(p) ==
  /\ pc[p] = "w_write"
  /\ IF tmp.st = "absent"
     THEN store' = Doc(pend[p]) /\ UNCHANGED tmp
     ELSE tmp' = Doc(pend[p]) /\ UNCHANGED store
  /\ pc' = [pc EXCEPT ![p] = "w_rename"]
  /\ UNCHANGED <<now, ticks, crashes, lock, op, ops, start, pend, ret, obs, elsewhere>>

\* writeStore: handle.writeFile fails (disk full): the handle is closed and
\* the error thrown; the truncated file stays.
WWriteFail(p) ==
  /\ pc[p] = "w_write"
  /\ Leaves(p, "throw", Threw("io", now))
  /\ UNCHANGED <<now, ticks, crashes, lock, store, tmp, op, ops, start, pend, obs, elsewhere>>

\* writeStore: fs.rename(tmpPath, STORE_FILE); ENOENT is thrown.
WRename(p) ==
  /\ pc[p] = "w_rename"
  /\ IF tmp.st = "absent"
     THEN Leaves(p, "throw", Threw("io", now)) /\ UNCHANGED <<store, tmp>>
     ELSE /\ store' = tmp
          /\ tmp' = Absent
          /\ Leaves(p, "return", ret[p])
  /\ UNCHANGED <<now, ticks, crashes, lock, op, ops, start, pend, obs, elsewhere>>

\* ensurePairingCode's "pending.find(...)": the entry of (chatId, userId).
FindPending(entries, chatId, userId) ==
  LET hits == {i \in 1..Len(entries) :
                 entries[i].chatId = chatId /\ entries[i].userId = userId}
  IN IF hits = {} THEN 0 ELSE CHOOSE i \in hits : \A j \in hits : i <= j

\* releaseLock: handle.close(), then removeLockFile unlinks LOCK_FILE,
\* whichever file that is.  The operation then returns or throws; an
\* ensurePairingCode that found no pending entry goes on to call
\* generatePairingCode, in a second withLock.
Release(p) ==
  /\ pc[p] = "release"
  /\ lock' = NoLock
  /\ IF op[p].kind = "ensure" /\ op[p].phase = 1 /\ ret[p].kind = "entries"
     THEN LET existing == FindPending(ret[p].entries, op[p].chatId, op[p].userId)
          IN IF existing # 0
             THEN /\ Ends(p, RetCode(ret[p].entries[existing].code, ret[p].at))
                  /\ UNCHANGED <<op, start>>
             ELSE /\ op' = [op EXCEPT ![p].phase = 2]
                  /\ start' = [start EXCEPT ![p] = now]
                  /\ pc' = [pc EXCEPT ![p] = "open"]
                  /\ ret' = [ret EXCEPT ![p] = NoRet]
     ELSE /\ pc' = [pc EXCEPT ![p] = "done"]
          /\ UNCHANGED <<op, start, ret>>
  /\ UNCHANGED <<now, ticks, crashes, store, tmp, ops, pend, obs, elsewhere>>

\* ------------------------------------------------------------------------
\* Environment

\* The process is killed; the files it created stay.
Crash(p) ==
  /\ pc[p] \notin {"off", "crashed", "idle", "done"}
  /\ crashes < MaxCrashes
  /\ crashes' = crashes + 1
  /\ pc' = [pc EXCEPT ![p] = "crashed"]
  /\ op' = [op EXCEPT ![p] = NoOp]
  /\ ret' = [ret EXCEPT ![p] = NoRet]
  /\ pend' = [pend EXCEPT ![p] = <<>>]
  /\ start' = [start EXCEPT ![p] = 0]
  /\ obs' = [obs EXCEPT ![p] = NoObs]
  /\ UNCHANGED <<now, ticks, lock, store, tmp, ops, elsewhere>>

\* The clock reaches an instant at which a stored request expires, or the
\* millisecond after it.
ExpiryInstants ==
  {store.entries[i].expiresAt + d : i \in 1..Len(store.entries), d \in {0, 1}}

TickExpiry ==
  /\ ticks < MaxTicks
  /\ \E t \in ExpiryInstants : t > now /\ now' = t
  /\ ticks' = ticks + 1
  /\ UNCHANGED <<crashes, lock, store, tmp, pc, op, ops, start, pend, ret, obs, elsewhere>>

\* The clock reaches the first instant at which the lock file is stale, or
\* at which a waiting acquireLock, of either store, has run out of time.
LockInstants ==
  {lock.mtime + LOCK_TIMEOUT_MS + 1 : x \in {y \in {1} : lock.exists}}
  \cup {start[p] + LOCK_TIMEOUT_MS + 1 :
          p \in {q \in Procs : pc[q] \in {"open", "readpid", "stat", "unlink", "delay",
                                          "a_open", "a_delay"}}}

TickLock ==
  /\ ticks < MaxTicks
  /\ \E t \in LockInstants : t > now /\ now' = t
  /\ ticks' = ticks + 1
  /\ UNCHANGED <<crashes, lock, store, tmp, pc, op, ops, start, pend, ret, obs, elsewhere>>

\* ------------------------------------------------------------------------
\* The lock-guarded pairing store with two processes.
Next ==
  \/ \E p \in Procs : BeginGenerate(p)
  \/ \E p \in Procs : BeginList(p)
  \/ \E p \in Procs : BeginApprove(p)
  \/ \E p \in Procs : BeginReject(p)
  \/ \E p \in Procs : BeginClean(p)
  \/ \E p \in Procs : BeginEnsure(p)
  \/ \E p \in Procs : LockOpen(p)
  \/ \E p \in Procs : LockWrite(p)
  \/ \E p \in Procs : LockWriteFail(p)
  \/ \E p \in Procs : LockReadPid(p)
  \/ \E p \in Procs : LockStat(p)
  \/ \E p \in Procs : LockUnlink(p)
  \/ \E p \in Procs : LockDelay(p)
  \/ \E p \in Procs : HRead(p)
  \/ \E p \in Procs : HReadFail(p)
  \/ \E p \in Procs : WOpen(p)
  \/ \E p \in Procs : WWrite(p)
  \/ \E p \in Procs : WWriteFail(p)
  \/ \E p \in Procs : WRename(p)
  \/ \E p \in Procs : Release(p)
  \/ \E p \in Procs : Crash(p)
  \/ TickExpiry

Spec == Init /\ [][Next]_vars

\* One long-lived process running operations one after the other.
NextSeq ==
  \/ \E p \in Procs : BeginGenerate(p)
  \/ \E p \in Procs : BeginList(p)
  \/ \E p \in Procs : BeginApprove(p)
  \/ \E p \in Procs : BeginReject(p)
  \/ \E p \in Procs : BeginClean(p)
  \/ \E p \in Procs : BeginEnsure(p)
  \/ \E p \in Procs : Again(p)
  \/ \E p \in Procs : LockOpen(p)
  \/ \E p \in Procs : LockWrite(p)
  \/ \E p \in Procs : HRead(p)
  \/ \E p \in Procs : WOpen(p)
  \/ \E p \in Procs : WWrite(p)
  \/ \E p \in Procs : WRename(p)
  \/ \E p \in Procs : Release(p)
  \/ TickExpiry

SpecSeq == InitSeq /\ [][NextSeq]_vars

\* The lock protocol alone, with three processes: every operation is
\* cleanExpired, the store stays empty.
NextLock ==
  \/ \E p \in Procs : BeginClean(p)
  \/ \E p \in Procs : LockOpen(p)
  \/ \E p \in Procs : LockWrite(p)
  \/ \E p \in Procs : LockWriteFail(p)
  \/ \E p \in Procs : LockReadPid(p)
  \/ \E p \in Procs : LockStat(p)
  \/ \E p \in Procs : LockUnlink(p)
  \/ \E p \in Procs : LockDelay(p)
  \/ \E p \in Procs : HRead(p)
  \/ \E p \in Procs : HReadFail(p)
  \/ \E p \in Procs : Release(p)
  \/ \E p \in Procs : Crash(p)
  \/ TickLock

SpecLock == InitLock /\ [][NextLock]_vars

\* ------------------------------------------------------------------------
\* The upsert store (src/unnamed/part_006, lines 1-159).  It takes no lock:
\* upsertPairingRequest reads the file, and writes it back later.  Its
\* PAIRING_TTL_MS and MAX_PENDING_PER_CHAT (lines 12-13) have the values of
\* the lock-guarded store's.  Ids are taken as already normalized; the
\* username is left out.

RetRequest(e, t) == [NoRet EXCEPT !.kind = "request", !.entries = <<e>>, !.code = e.code, !.at = t]

\* normalizeRequests on well-typed requests, at time t.
normalizeRequests(requests, t) ==
  LET result == SelectSeq(requests, LAMBDA r : ~(r.expiresAt <= t))
  IN [dirty |-> Len(result) # Len(requests), requests |-> result]

\* The candidates generatePairingCode can return.
generatePairingCodeUpsert(existingCodes) ==
  {CodeStr(i, FALSE) : i \in 1..NumUpsertCodes} \ existingCodes

\* Index of the request of chatId that a stable sort by expiresAt puts first.
Soonest(requests, chatId) ==
  LET rel == {i \in 1..Len(requests) : requests[i].chatId = chatId}
  IN CHOOSE i \in rel :
       \A j \in rel : \/ requests[i].expiresAt < requests[j].expiresAt
                      \/ (requests[i].expiresAt = requests[j].expiresAt /\ i <= j)

RECURSIVE RemoveSoonest(_, _, _)
RemoveSoonest(requests, chatId, n) ==
  IF n <= 0 THEN requests
  ELSE RemoveSoonest(splice(requests, findIndexByCode(requests, requests[Soonest(requests, chatId)].code)),
                     chatId, n - 1)

\* enforceChatQuota dropping the first request of the chat in file order.
enforceChatQuotaFirst(requests, chatId) ==
  LET relevant == {i \in 1..Len(requests) : requests[i].chatId = chatId}
  IN IF Cardinality(relevant) < MAX_PENDING_PER_CHAT THEN requests
     ELSE splice(requests, CHOOSE i \in relevant : \A j \in relevant : i <= j)

\* enforceChatQuota: drops the soonest-expiring requests of the chat until
\* one more fits.
enforceChatQuota(requests, chatId) ==
  LET relevant == SelectSeq(requests, LAMBDA r : r.chatId = chatId)
      overflow == Len(relevant) - MAX_PENDING_PER_CHAT + 1
  IN IF overflow <= 0 THEN requests ELSE RemoveSoonest(requests, chatId, overflow)

\* "store.requests.find((request) => request.userId === normalizedUserId)"
FindByUser(requests, userId) ==
  LET hits == {i \in 1..Len(requests) : requests[i].userId = userId}
  IN IF hits = {} THEN 0 ELSE CHOOSE i \in hits : \A j \in hits : i <= j

\* upsertPairingRequest that keeps no request but the one it writes.
upsertPairingRequestAlone(requests, userId, chatId, t, code) ==
  LET newRequest == [code |-> code, chatId |-> chatId, userId |-> userId,
                     createdAt |-> t, expiresAt |-> t + PAIRING_TTL_MS]
  IN Plan("write", <<newRequest>>, RetRequest(newRequest, t))

\* upsertPairingRequest after loadPairingStore returned requests: t is the
\* "now" taken before the load, code the candidate generatePairingCode drew.
upsertPairingRequest(requests, userId, chatId, t, code) ==
  LET existing == FindByUser(requests, userId)
  IN IF existing # 0
     THEN LET refreshed == [requests[existing] EXCEPT !.chatId = chatId, !.createdAt = t,
                                                      !.expiresAt = t + PAIRING_TTL_MS]
          IN Plan("write", [requests EXCEPT ![existing] = refreshed], RetRequest(refreshed, t))
     ELSE LET kept == enforceChatQuota(requests, chatId)
              newRequest == [code |-> code, chatId |-> chatId, userId |-> userId,
                             createdAt |-> t, expiresAt |-> t + PAIRING_TTL_MS]
          IN Plan("write", Append(kept, newRequest), RetRequest(newRequest, t))

\* The codes the call may draw, given the requests loaded.
UpsertCodeChoices(requests, userId, chatId) ==
  IF FindByUser(requests, userId) # 0 THEN {CodeStr(BogusCode, FALSE)}
  ELSE LET kept == enforceChatQuota(requests, chatId)
       IN generatePairingCodeUpsert({kept[i].code : i \in 1..Len(kept)})

\* The files the upsert store does not touch.
offUpsert == <<lock, store, tmp, cfile, afile, alock, bfile0, policyState>>

\* The file after three senders wrote to the bot from chat k1 at time 0.
ThreeInChat ==
  [i \in 1..3 |-> [code |-> CodeStr(i, FALSE), chatId |-> "k1",
                   userId |-> <<"u1", "u2", "u3">>[i],
                   createdAt |-> 0, expiresAt |-> PAIRING_TTL_MS]]

\* The bot and another process of the repository each handle one message;
\* the file is missing, or holds three requests.
InitUpsert ==
  /\ InitOf(StoreProcs, {DefaultConfig})
  /\ bfile \in {Absent, Doc(ThreeInChat)}
  /\ bfile0 = bfile
  /\ cfile = Absent
  /\ efile = Absent
  /\ afile = Absent
  /\ ledger = NoLedger

\* access.ts calls upsertPairingRequest(userId, username, chatId):
\* "const now = Date.now()".
BeginUpsert(p) ==
  /\ pc[p] = "idle"
  /\ \E k \in UpsertChats, u \in UpsertUsers :
       op' = [op EXCEPT ![p] = [NoOp EXCEPT !.kind = "upsert", !.chatId = k, !.userId = u]]
  /\ start' = [start EXCEPT ![p] = now]
  /\ pc' = [pc EXCEPT ![p] = "b_read"]
  /\ UNCHANGED <<now, ticks, crashes, ops, pend, ret, obs, bfile, offUpsert>>

\* The call goes on from the requests it holds in memory to its write.
Applies(p, requests) ==
  \E code \in UpsertCodeChoices(requests, op[p].userId, op[p].chatId) :
    LET plan == upsertPairingRequest(requests, op[p].userId, op[p].chatId, start[p], code)
    IN /\ pend' = [pend EXCEPT ![p] = plan.pend]
       /\ ret' = [ret EXCEPT ![p] = plan.ret]
       /\ pc' = [pc EXCEPT ![p] = "b_trunc"]

\* loadPairingStore: fs.readFile, JSON.parse, normalizeRequests; a dirty
\* document is written back first.
LoadPairingStore(p) ==
  /\ pc[p] = "b_read"
  /\ IF bfile.st = "partial"
     THEN Ends(p, Threw("parse", now)) /\ UNCHANGED pend
     ELSE LET normalized == normalizeRequests(bfile.entries, now)
          IN IF normalized.dirty
             THEN /\ pend' = [pend EXCEPT ![p] = normalized.requests]
                  /\ pc' = [pc EXCEPT ![p] = "b_ltrunc"]
                  /\ UNCHANGED ret
             ELSE Applies(p, normalized.requests)
  /\ UNCHANGED <<now, ticks, crashes, op, ops, start, obs, bfile, offUpsert>>

\* upsertPairingRequest resumes after loadPairingStore's write.
UpsertResume(p) ==
  /\ pc[p] = "b_apply"
  /\ Applies(p, pend[p])
  /\ UNCHANGED <<now, ticks, crashes, op, ops, start, obs, bfile, offUpsert>>

\* writePairingStore, fs.writeFile: the file is opened with truncation...
WritePairingStoreOpen(p) ==
  /\ pc[p] \in {"b_ltrunc", "b_trunc"}
  /\ bfile' = Partial
  /\ pc' = [pc EXCEPT ![p] = IF pc[p] = "b_ltrunc" THEN "b_lwrite" ELSE "b_write"]
  /\ UNCHANGED <<now, ticks, crashes, op, ops, start, pend, ret, obs, offUpsert>>

\* ... and the document written.
WritePairingStore(p) ==
  /\ pc[p] \in {"b_lwrite", "b_write"}
  /\ bfile' = Doc(pend[p])
  /\ pc' = [pc EXCEPT ![p] = IF pc[p] = "b_lwrite" THEN "b_apply" ELSE "done"]
  /\ UNCHANGED <<now, ticks, crashes, op, ops, start, pend, ret, obs, offUpsert>>

\* The clock reaches an instant at which a request of the file expires, or
\* the millisecond after it.
TickUpsert ==
  /\ ticks < MaxTicks
  /\ \E i \in 1..Len(bfile.entries), d \in {0, 1} :
       bfile.entries[i].expiresAt + d > now /\ now' = bfile.entries[i].expiresAt + d
  /\ ticks' = ticks + 1
  /\ UNCHANGED <<crashes, pc, op, ops, start, pend, ret, obs, bfile, offUpsert>>

NextUpsert ==
  \/ \E p \in Procs : BeginUpsert(p)
  \/ \E p \in Procs : LoadPairingStore(p)
  \/ \E p \in Procs : UpsertResume(p)
  \/ \E p \in Procs : WritePairingStoreOpen(p)
  \/ \E p \in Procs : WritePairingStore(p)
  \/ TickUpsert

SpecUpsert == InitUpsert /\ [][NextUpsert]_vars

\* ------------------------------------------------------------------------
\* The synchronous store (src/unnamed/part_006, lines 161-309), used by
\* src/src/cli/pairing-cli.ts.  It takes no lock; each command-line
\* invocation is a process of its own.  No code of the repository adds a
\* request to its file.  Codes are typed without surrounding blanks.

\* readStore: a missing file reads as no entries.
readStoreSync(file) == IF file.st = "absent" THEN <<>> ELSE file.entries

\* "store.entries.findIndex((entry) => entry.code.toUpperCase() === normalizedCode)"
findIndexSync(entries, normalizedCode) ==
  LET hits == {i \in 1..Len(entries) : toUpperCase(entries[i].code) = normalizedCode}
  IN IF hits = {} THEN 0 ELSE CHOOSE i \in hits : \A j \in hits : i <= j

\* normalizeCode: trim, then upper case.
normalizeCode(code) == toUpperCase(code)

\* approvePairing(code, channel) on the entries read, at time t.
approvePairingSync(entries, code, channel, t) ==
  LET index == findIndexSync(entries, normalizeCode(code))
  IN IF index = 0
     THEN Plan("throw", entries, Threw("PairingNotFoundError", t))
     ELSE IF channel # "" /\ entries[index].channel # channel
     THEN Plan("throw", entries, Threw("PairingNotFoundError", t))
     ELSE IF entries[index].expiresAt <= t
     THEN Plan("write", splice(entries, index), Threw("PairingExpiredError", t))
     ELSE Plan("write", splice(entries, index), RetEntry(entries[index], t))

\* rejectPairing(code, channel): the same steps.
rejectPairingSync(entries, code, channel, t) ==
  LET index == findIndexSync(entries, normalizeCode(code))
  IN IF index = 0
     THEN Plan("throw", entries, Threw("PairingNotFoundError", t))
     ELSE IF channel # "" /\ entries[index].channel # channel
     THEN Plan("throw", entries, Threw("PairingNotFoundError", t))
     ELSE IF entries[index].expiresAt <= t
     THEN Plan("write", splice(entries, index), Threw("PairingExpiredError", t))
     ELSE Plan("write", splice(entries, index), RetEntry(entries[index], t))

\* getPendingPairings(channel) with cleanupExpired.
getPendingPairingsSync(entries, channel, t) ==
  LET activeEntries == SelectSeq(entries, LAMBDA e : e.expiresAt > t)
  IN Plan(IF Len(activeEntries) # Len(entries) THEN "write" ELSE "return", activeEntries,
          RetEntries(SelectSeq(activeEntries, LAMBDA e : e.channel = channel), t))

HandlerSync(o, entries, t) ==
  CASE o.kind = "approve" -> approvePairingSync(entries, o.code, o.chatId, t)
    [] o.kind = "reject" -> rejectPairingSync(entries, o.code, o.chatId, t)
    [] o.kind = "list" -> getPendingPairingsSync(entries, o.chatId, t)

\* The files the synchronous store does not touch.
offSync == <<lock, store, tmp, bfile, afile, alock, bfile0, policyState>>

\* Two requests issued at time 0 on the telegram channel.
TwoPending ==
  [i \in 1..2 |-> [code |-> CodeStr(i, FALSE), channel |-> "telegram", chatId |-> "k1",
                   userId |-> <<"u1", "u2">>[i],
                   createdAt |-> 0, expiresAt |-> PAIRING_TTL_MS]]

InitSync ==
  /\ InitOf(StoreProcs, {DefaultConfig})
  /\ bfile = Absent
  /\ bfile0 = Absent
  /\ cfile \in {Absent, Doc(TwoPending)}
  /\ efile = Absent
  /\ afile = Absent
  /\ ledger = NoLedger

\* "nanoclaw pairing approve|reject|list telegram [code]"; the op's chatId
\* field carries the channel.
BeginSync(p, kind, code) ==
  /\ pc[p] = "idle"
  /\ op' = [op EXCEPT ![p] = [NoOp EXCEPT !.kind = kind, !.code = code, !.chatId = "telegram"]]
  /\ pc' = [pc EXCEPT ![p] = "c_read"]
  /\ UNCHANGED <<now, ticks, crashes, ops, start, pend, ret, obs, cfile, offSync>>

BeginSyncApprove(p) == \E c \in CodeInputs : BeginSync(p, "approve", c)

BeginSyncReject(p) == \E c \in CodeInputs : BeginSync(p, "reject", c)

BeginSyncList(p) == BeginSync(p, "list", CodeStr(BogusCode, FALSE))

\* readStore (fs.readFileSync, JSON.parse), Date.now(), and the body up to
\* saveStore or to the return or throw.
SyncRead(p) ==
  /\ pc[p] = "c_read"
  /\ IF cfile.st = "partial"
     THEN Ends(p, Threw("SyntaxError", now)) /\ UNCHANGED <<pend, obs>>
     ELSE LET plan == HandlerSync(op[p], readStoreSync(cfile), now)
          IN /\ obs' = [obs EXCEPT ![p] = Observe(op[p], readStoreSync(cfile), now)]
             /\ ret' = [ret EXCEPT ![p] = plan.ret]
             /\ IF plan.act = "write"
                THEN /\ pend' = [pend EXCEPT ![p] = plan.pend]
                     /\ pc' = [pc EXCEPT ![p] = "c_trunc"]
                ELSE /\ pc' = [pc EXCEPT ![p] = "done"]
                     /\ UNCHANGED pend
  /\ UNCHANGED <<now, ticks, crashes, op, ops, start, cfile, offSync>>

\* saveStore, fs.writeFileSync: the file is opened with truncation...
SaveStoreOpen(p) ==
  /\ pc[p] = "c_trunc"
  /\ cfile' = Partial
  /\ pc' = [pc EXCEPT ![p] = "c_write"]
  /\ UNCHANGED <<now, ticks, crashes, op, ops, start, pend, ret, obs, offSync>>

\* ... and the document written; the command then returns or throws.
SaveStore(p) ==
  /\ pc[p] = "c_write"
  /\ cfile' = Doc(pend[p])
  /\ pc' = [pc EXCEPT ![p] = "done"]
  /\ UNCHANGED <<now, ticks, crashes, op, ops, start, pend, ret, obs, offSync>>

TickSync ==
  /\ ticks < MaxTicks
  /\ \E i \in 1..Len(cfile.entries), d \in {0, 1} :
       cfile.entries[i].expiresAt + d > now /\ now' = cfile.entries[i].expiresAt + d
  /\ ticks' = ticks + 1
  /\ UNCHANGED <<crashes, pc, op, ops, start, pend, ret, obs, cfile, offSync>>

NextSync ==
  \/ \E p \in Procs : BeginSyncApprove(p)
  \/ \E p \in Procs : BeginSyncReject(p)
  \/ \E p \in Procs : BeginSyncList(p)
  \/ \E p \in Procs : SyncRead(p)
  \/ \E p \in Procs : SaveStoreOpen(p)
  \/ \E p \in Procs : SaveStore(p)
  \/ TickSync

SpecSync == InitSync /\ [][NextSync]_vars

\* ------------------------------------------------------------------------
\* Properties of the synchronous store

\* p's approve or reject obtained the request.
Obtained(p) ==
  pc[p] = "done" /\ op[p].kind \in {"approve", "reject"} /\ ret[p].kind = "entry"

\* C8: of the approve and reject calls on one code, at most one obtains the
\* request.
C8_SingleUse ==
  \A p, q \in Procs :
    (p # q /\ Obtained(p) /\ Obtained(q)) => ret[p].code # ret[q].code

\* ------------------------------------------------------------------------
\* The allow-list store (src/unnamed/part_008, lines 1-258).  An operation
\* is followed from its call of withFileLock on: parseAllowlistInput has
\* returned parsedEntry.  Its LOCK_TIMEOUT_MS (line 7) has the value of the
\* pairing store's.

AllowEntries == {[type |-> "id", value |-> "42"], [type |-> "wildcard", value |-> "*"]}

entriesEqual(a, b) == a.type = b.type /\ a.value = b.value

\* Body of addToAllowlist's callback on the entries read.
addToAllowlist(entries, parsedEntry, t) ==
  IF \E i \in 1..Len(entries) : entriesEqual(entries[i], parsedEntry)
  THEN Plan("return", entries, RetVoid(t))
  ELSE Plan("write", Append(entries, parsedEntry), RetVoid(t))

\* removeFromAllowlist dropping the first equal entry only.
removeFirstFromAllowlist(entries, parsedEntry, t) ==
  LET hits == {i \in 1..Len(entries) : entriesEqual(entries[i], parsedEntry)}
      first == CHOOSE i \in hits : \A j \in hits : i <= j
  IN IF hits = {} THEN Plan("return", entries, RetBool(FALSE, t))
     ELSE Plan("write", [i \in 1..(Len(entries) - 1) |-> IF i < first THEN entries[i] ELSE entries[i + 1]],
               RetBool(TRUE, t))

\* Body of removeFromAllowlist's callback on the entries read.
removeFromAllowlist(entries, parsedEntry, t) ==
  LET filtered == SelectSeq(entries, LAMBDA e : ~entriesEqual(e, parsedEntry))
  IN IF Len(filtered) = Len(entries)
     THEN Plan("return", entries, RetBool(FALSE, t))
     ELSE Plan("write", filtered, RetBool(TRUE, t))

\* normalizeUsername of the allow-list store: trim, drop one leading "@",
\* lower case; "" stands for null.
normalizeUsernameEntry(x) ==
  LET trimmed == trim(x)
      withoutPrefix == IF trimmed.pre = "" THEN [trimmed EXCEPT !.at = FALSE] ELSE trimmed
  IN toLowerCase(withoutPrefix)

\* parseAllowlistInput on a string; type "invalid" stands for the Error
\* thrown.
parseAllowlistInput(x) ==
  LET value == trim(x)
  IN IF Text(value) = "" THEN [type |-> "invalid", value |-> ""]
     ELSE IF Text(value) = "*" THEN [type |-> "wildcard", value |-> "*"]
     ELSE IF value.pre = "" /\ ~value.at /\ value.body \in Digits THEN [type |-> "id", value |-> value.body]
     ELSE IF normalizeUsernameEntry(value) # "" THEN [type |-> "username", value |-> normalizeUsernameEntry(value)]
     ELSE [type |-> "invalid", value |-> ""]

\* parseAllowlistInput on a number: NaN and the infinities are refused, the
\* others truncated, printed and handed to normalizeId, which throws unless
\* all characters are digits.
parseAllowlistNumber(n) ==
  IF ~n.finite THEN [type |-> "invalid", value |-> ""]
  ELSE IF n.trunc \in Digits THEN [type |-> "id", value |-> n.trunc]
  ELSE [type |-> "invalid", value |-> ""]

\* normalizeExistingEntry; type "invalid" stands for the Error thrown.
normalizeExistingEntry(entry) ==
  CASE entry.type = "wildcard" -> [type |-> "wildcard", value |-> "*"]
    [] entry.type = "username" ->
         IF normalizeUsernameEntry(Str(entry.value)) = "" THEN [type |-> "invalid", value |-> ""]
         ELSE [type |-> "username", value |-> normalizeUsernameEntry(Str(entry.value))]
    [] entry.type = "id" ->
         IF entry.value \in Digits THEN entry ELSE [type |-> "invalid", value |-> ""]
    [] OTHER -> [type |-> "invalid", value |-> ""]

\* saveAllowlist: the entries normalized one by one, then written.
saveAllowlist(entries, t) ==
  LET normalized == [i \in 1..Len(entries) |-> normalizeExistingEntry(entries[i])]
  IN IF \E i \in 1..Len(entries) : normalized[i].type = "invalid"
     THEN Plan("throw", <<>>, Threw("validation", t))
     ELSE Plan("write", normalized, RetVoid(t))

\* isAllowed that looks for the id and the username only.
isAllowedNoWildcard(entries, userId, username, t) ==
  Plan("return", entries,
       RetBool(\/ \E i \in 1..Len(entries) : entries[i].type = "id" /\ entries[i].value = userId
               \/ \E i \in 1..Len(entries) :
                    entries[i].type = "username" /\ entries[i].value = normalizeUsernameEntry(username),
               t))

\* Body of isAllowed after its read: userId is trimmed, username normalized.
isAllowed(entries, userId, username, t) ==
  LET normalizedUsername == normalizeUsernameEntry(username)
  IN Plan("return", entries,
          RetBool(/\ Len(entries) # 0
                  /\ \/ \E i \in 1..Len(entries) : entries[i].type = "wildcard"
                     \/ /\ userId # ""
                        /\ \E i \in 1..Len(entries) :
                             entries[i].type = "id" /\ entries[i].value = userId
                     \/ /\ normalizedUsername # ""
                        /\ \E i \in 1..Len(entries) :
                             entries[i].type = "username" /\ entries[i].value = normalizedUsername,
                  t))

HandlerAllow(o, entries, t) ==
  CASE o.kind = "add" -> addToAllowlist(entries, o.entry, t)
    [] o.kind = "remove" -> removeFromAllowlist(entries, o.entry, t)
    [] o.kind = "isAllowed" -> isAllowed(entries, o.entry.value, Raw("", FALSE, o.username), t)

\* The files the allow-list store does not touch.
offAllow == <<lock, store, tmp, bfile, cfile, bfile0, policyState>>

\* withFileLock, then acquireLock's "const start = Date.now()".
BeginAllow(p, kind, entry) ==
  /\ pc[p] = "idle"
  /\ op' = [op EXCEPT ![p] = [NoOp EXCEPT !.kind = kind, !.entry = entry]]
  /\ start' = [start EXCEPT ![p] = now]
  /\ pc' = [pc EXCEPT ![p] = "a_open"]
  /\ UNCHANGED <<now, ticks, crashes, ops, pend, ret, obs, afile, alock, offAllow>>

BeginAdd(p) == \E e \in AllowEntries : BeginAllow(p, "add", e)

BeginRemove(p) == \E e \in AllowEntries : BeginAllow(p, "remove", e)

BeginIsAllowed(p) == BeginAllow(p, "isAllowed", [type |-> "id", value |-> "42"])

\* acquireLock: fs.open(LOCK_PATH, 'wx'); on EEXIST the timeout check, then
\* delay.
AllowLockOpen(p) ==
  /\ pc[p] = "a_open"
  /\ IF alock.exists
     THEN /\ IF now - start[p] > LOCK_TIMEOUT_MS
             THEN Ends(p, Threw("timeout", now))
             ELSE pc' = [pc EXCEPT ![p] = "a_delay"] /\ UNCHANGED ret
          /\ UNCHANGED alock
     ELSE /\ alock' = [exists |-> TRUE, creator |-> p, pid |-> NoProc, mtime |-> now]
          /\ pc' = [pc EXCEPT ![p] = "a_read"]
          /\ UNCHANGED ret
  /\ UNCHANGED <<now, ticks, crashes, op, ops, start, pend, obs, afile, offAllow>>

AllowLockDelay(p) ==
  /\ pc[p] = "a_delay"
  /\ pc' = [pc EXCEPT ![p] = "a_open"]
  /\ UNCHANGED <<now, ticks, crashes, op, ops, start, pend, ret, obs, afile, alock, offAllow>>

\* Where withFileLock goes when fn returned or threw: "finally" runs release
\* on both paths.
withFileLock(act) == "a_release"

\* readAllowlistFile, then the callback's body up to writeAllowlistFile or
\* to its return; JSON.parse rejects a partially written file.
AllowRead(p) ==
  /\ pc[p] = "a_read"
  /\ IF afile.st = "partial"
     THEN /\ pc' = [pc EXCEPT ![p] = withFileLock("throw")]
          /\ ret' = [ret EXCEPT ![p] = Threw("parse", now)]
          /\ UNCHANGED pend
     ELSE LET plan == HandlerAllow(op[p], afile.entries, now)
          IN /\ ret' = [ret EXCEPT ![p] = plan.ret]
             /\ IF plan.act = "write"
                THEN /\ pend' = [pend EXCEPT ![p] = plan.pend]
                     /\ pc' = [pc EXCEPT ![p] = "a_trunc"]
                ELSE /\ pc' = [pc EXCEPT ![p] = withFileLock(plan.act)]
                     /\ UNCHANGED pend
  /\ UNCHANGED <<now, ticks, crashes, op, ops, start, obs, afile, alock, offAllow>>

\* fs.readFile fails with an error other than ENOENT.
AllowReadFail(p) ==
  /\ pc[p] = "a_read"
  /\ pc' = [pc EXCEPT ![p] = withFileLock("throw")]
  /\ ret' = [ret EXCEPT ![p] = Threw("io", now)]
  /\ UNCHANGED <<now, ticks, crashes, op, ops, start, pend, obs, afile, alock, offAllow>>

\* writeAllowlistFile, fs.writeFile: the file is opened with truncation...
AllowWriteOpen(p) ==
  /\ pc[p] = "a_trunc"
  /\ afile' = Partial
  /\ pc' = [pc EXCEPT ![p] = "a_write"]
  /\ UNCHANGED <<now, ticks, crashes, op, ops, start, pend, ret, obs, alock, offAllow>>

\* ... and the payload written.
AllowWrite(p) ==
  /\ pc[p] = "a_write"
  /\ afile' = Doc(pend[p])
  /\ pc' = [pc EXCEPT ![p] = withFileLock("return")]
  /\ UNCHANGED <<now, ticks, crashes, op, ops, start, pend, ret, obs, alock, offAllow>>

\* The write fails (disk full): the truncated file stays, fn throws.
AllowWriteFail(p) ==
  /\ pc[p] = "a_write"
  /\ pc' = [pc EXCEPT ![p] = withFileLock("throw")]
  /\ ret' = [ret EXCEPT ![p] = Threw("io", now)]
  /\ UNCHANGED <<now, ticks, crashes, op, ops, start, pend, obs, afile, alock, offAllow>>

\* release: handle.close(), fs.unlink(LOCK_PATH); the operation returns or
\* throws.
AllowRelease(p) ==
  /\ pc[p] = "a_release"
  /\ alock' = NoLock
  /\ pc' = [pc EXCEPT ![p] = "done"]
  /\ UNCHANGED <<now, ticks, crashes, op, ops, start, pend, ret, obs, afile, offAllow>>

\* One long-lived process calling operations of the pairing store and of
\* the allow-list store one after the other, with the file-system failures.
NextExit ==
  \/ \E p \in Procs : BeginGenerate(p)
  \/ \E p \in Procs : BeginList(p)
  \/ \E p \in Procs : Again(p)
  \/ \E p \in Procs : LockOpen(p)
  \/ \E p \in Procs : LockWrite(p)
  \/ \E p \in Procs : LockWriteFail(p)
  \/ \E p \in Procs : HRead(p)
  \/ \E p \in Procs : HReadFail(p)
  \/ \E p \in Procs : WOpen(p)
  \/ \E p \in Procs : WWrite(p)
  \/ \E p \in Procs : WWriteFail(p)
  \/ \E p \in Procs : WRename(p)
  \/ \E p \in Procs : Release(p)
  \/ \E p \in Procs : BeginAdd(p)
  \/ \E p \in Procs : BeginRemove(p)
  \/ \E p \in Procs : BeginIsAllowed(p)
  \/ \E p \in Procs : AllowLockOpen(p)
  \/ \E p \in Procs : AllowRead(p)
  \/ \E p \in Procs : AllowReadFail(p)
  \/ \E p \in Procs : AllowWriteOpen(p)
  \/ \E p \in Procs : AllowWrite(p)
  \/ \E p \in Procs : AllowWriteFail(p)
  \/ \E p \in Procs : AllowRelease(p)

SpecExit == InitSeq /\ [][NextExit]_vars

\* ------------------------------------------------------------------------
\* Properties of the two locks

Holds(p) == pc[p] \in {"h_read", "w_open", "w_write", "w_rename", "release"}

\* The requests of the store file that are not expired now.
OpenRequests == SelectSeq(readStore(store), LAMBDA e : e.expiresAt > now)

OpenFor(chatId, userId) ==
  SelectSeq(OpenRequests, LAMBDA e : e.chatId = chatId /\ e.userId = userId)

\* C1: at most one process is between a successful acquireLock and its own
\* releaseLock, in every interleaving, reclaims of a stale lock included.
C1_OneHolder == Cardinality({p \in Procs : Holds(p)}) <= 1

\* C3: no two requests of the store that are both non-expired share a code.
C3_CodesUnique ==
  \A i, j \in 1..Len(OpenRequests) :
    i # j => OpenRequests[i].code # OpenRequests[j].code

\* Two processes generated a code each, and both requests are in the store.
C3_Witness ==
  /\ \A p \in StoreProcs : pc[p] = "done" /\ op[p].kind = "generate" /\ ret[p].kind = "code"
  /\ Len(OpenRequests) = 2

\* C4: generate for a (chatId, userId) that has a non-expired request returns
\* the code of that request and leaves exactly one request of that identity.
C4_GenerateIdempotent ==
  \A p \in Procs :
    (pc[p] = "done" /\ op[p].kind = "generate" /\ obs[p].had) =>
      /\ ret[p].kind = "code"
      /\ ret[p].code = obs[p].hadCode
      /\ Len(OpenFor(op[p].chatId, op[p].userId)) = 1

\* C5: concurrent ensurePairingCode calls for one sender return the same
\* code, and leave at most one open request of that sender.
C5_EnsureAtomic ==
  \A p, q \in Procs :
    (/\ pc[p] = "done" /\ pc[q] = "done"
     /\ op[p].kind = "ensure" /\ op[q].kind = "ensure"
     /\ op[p].chatId = op[q].chatId /\ op[p].userId = op[q].userId
     /\ ret[p].kind = "code" /\ ret[q].kind = "code"
     /\ \E i \in 1..Len(OpenRequests) : OpenRequests[i].code = ret[p].code
     /\ \E i \in 1..Len(OpenRequests) : OpenRequests[i].code = ret[q].code)
    => /\ ret[p].code = ret[q].code
       /\ Len(OpenFor(op[p].chatId, op[p].userId)) <= 1

\* C7: a request whose expiresAt is at or before the clock the handler read
\* is neither listed nor returned by approve.
C7_ExpiredUnusable ==
  \A p \in Procs :
    ret[p].kind \in {"entries", "entry"} =>
      \A i \in 1..Len(ret[p].entries) : ret[p].entries[i].expiresAt > ret[p].at

\* approve ran at the very instant its code expired, and returned null.
C7_Witness ==
  \E p \in Procs :
    /\ pc[p] = "done" /\ op[p].kind = "approve"
    /\ obs[p].status = "expired" /\ obs[p].boundary
    /\ ret[p].kind = "null" /\ ret[p].at = now

\* What the operation of p would return, now, for a string that was never
\* issued as a code.
NeverIssued(p) ==
  Handler([op[p] EXCEPT !.code = CodeStr(BogusCode, FALSE)], readStore(store), now,
          CodeStr(BogusCode, FALSE)).ret

\* C9: approve and reject report an expired code otherwise than a code that
\* was never issued, and the command line prints a different message.
C9_ExpiredDistinct ==
  \A p \in Procs :
    (pc[p] = "done" /\ op[p].kind \in {"approve", "reject"} /\ obs[p].status = "expired") =>
      /\ ret[p].kind # NeverIssued(p).kind
      /\ CliMessage(op[p].kind, ret[p]) # CliMessage(op[p].kind, NeverIssued(p))

\* ------------------------------------------------------------------------
\* Properties of the upsert store

\* The documents that running the call o1, then the call o2, can leave,
\* starting from the requests at the start.
SerialDocs(o1, t1, o2, t2) ==
  UNION {
    {upsertPairingRequest(
       upsertPairingRequest(bfile0.entries, o1.userId, o1.chatId, t1, c1).pend,
       o2.userId, o2.chatId, t2, c2).pend :
       c2 \in UpsertCodeChoices(
                upsertPairingRequest(bfile0.entries, o1.userId, o1.chatId, t1, c1).pend,
                o2.userId, o2.chatId)} :
    c1 \in UpsertCodeChoices(bfile0.entries, o1.userId, o1.chatId)}

\* C2: when two concurrently started operations on a store have both
\* completed, the file holds what running them one after the other, in one
\* of the two orders, leaves.
C2_Serialized ==
  (/\ pc["p1"] = "done" /\ ret["p1"].kind = "request"
   /\ pc["p2"] = "done" /\ ret["p2"].kind = "request"
   /\ ticks = 0)
  => /\ bfile.st = "ok"
     /\ bfile.entries \in SerialDocs(op["p1"], start["p1"], op["p2"], start["p2"])
                            \cup SerialDocs(op["p2"], start["p2"], op["p1"], start["p1"])

\* C6: no chat has more than MAX_PENDING_PER_CHAT requests that are not
\* expired.
C6_ChatQuota ==
  \A k \in UpsertChats :
    Len(SelectSeq(bfile.entries, LAMBDA r : r.chatId = k /\ r.expiresAt > now))
      <= MAX_PENDING_PER_CHAT

\* ------------------------------------------------------------------------
\* The two lock protocols with processes that crash and a scheduler that
\* keeps running every acquireLock that can take a step: two processes call
\* cleanExpired of the pairing store or an operation of the allow-list store.
NextLocks ==
  \/ \E p \in Procs : BeginClean(p)
  \/ \E p \in Procs : LockOpen(p)
  \/ \E p \in Procs : LockWrite(p)
  \/ \E p \in Procs : LockWriteFail(p)
  \/ \E p \in Procs : LockReadPid(p)
  \/ \E p \in Procs : LockStat(p)
  \/ \E p \in Procs : LockUnlink(p)
  \/ \E p \in Procs : LockDelay(p)
  \/ \E p \in Procs : HRead(p)
  \/ \E p \in Procs : Release(p)
  \/ \E p \in Procs : BeginAdd(p)
  \/ \E p \in Procs : BeginIsAllowed(p)
  \/ \E p \in Procs : AllowLockOpen(p)
  \/ \E p \in Procs : AllowLockDelay(p)
  \/ \E p \in Procs : AllowRead(p)
  \/ \E p \in Procs : AllowWriteOpen(p)
  \/ \E p \in Procs : AllowWrite(p)
  \/ \E p \in Procs : AllowRelease(p)
  \/ \E p \in Procs : Crash(p)
  \/ TickLock

\* One iteration step of acquireLock, in either store: each is an awaited
\* file-system call or timer of a running process, which the event loop
\* completes.  A handler holding the lock and the clock are not scheduled.
AcquireStep(p) ==
  \/ LockOpen(p) \/ LockWrite(p) \/ LockReadPid(p) \/ LockStat(p)
  \/ LockUnlink(p) \/ LockDelay(p)
  \/ AllowLockOpen(p) \/ AllowLockDelay(p)

SpecLocks == Init /\ [][NextLocks]_vars /\ \A p \in Procs : WF_vars(AcquireStep(p))

\* p is inside acquireLock of the pairing store / of the allow-list store.
Acquiring(p) == pc[p] \in {"open", "lockwrite", "readpid", "stat", "unlink", "delay"}

AllowAcquiring(p) == pc[p] \in {"a_open", "a_delay"}

\* p is between a successful acquireLock of the allow-list store and the end
\* of its release.
AllowHolds(p) == pc[p] \in {"a_read", "a_trunc", "a_write", "a_release"}

\* No process other than p is inside an operation.
Alone(p) == \A q \in Procs \ {p} : pc[q] \in {"idle", "off", "done", "crashed"}

C12_AllowLockRecovered ==
  \A p \in Procs :
    (pc[p] = "a_open" /\ alock.exists /\ ~Alive(alock.creator) /\ Alone(p))
      ~> (AllowHolds(p) \/ ~Alive(p) \/ ~Alone(p))

\* C13: an acquireLock, of either store, whose wait has exceeded
\* LOCK_TIMEOUT_MS does not stay in its retry loop: it returns the handle or
\* throws, whatever the holder of the lock does.
C13_AcquireTerminates ==
  \A p \in Procs :
    ((Acquiring(p) \/ AllowAcquiring(p)) /\ now - start[p] > LOCK_TIMEOUT_MS)
      ~> ~(Acquiring(p) \/ AllowAcquiring(p))

\* A contender of the pairing store threw the timeout error while a live
\* process held the lock.
C13_Witness ==
  \E p, q \in Procs :
    /\ pc[p] = "done" /\ ret[p].kind = "threw" /\ ret[p].err = "timeout"
    /\ op[p].kind = "clean" /\ Holds(q) /\ lock.pid = q

\* ------------------------------------------------------------------------
\* The access policy of src/unnamed/part_003: checkDmAccess and
\* checkGroupAccess over the configuration, the allow-list store of
\* part_008 (lines 1-258) and the lock-guarded pairing store.

\* normalizeTarget (part_009): one "telegram:" or "tg:" prefix and one
\* leading "@" are dropped; what is left is lower-cased unless numeric.
normalizeTarget(x) ==
  LET candidate == IF x.pre \in {"telegram:", "tg:"} THEN [x EXCEPT !.pre = ""] ELSE x
      raw == IF candidate.pre = "" THEN [candidate EXCEPT !.at = FALSE] ELSE candidate
  IN IF raw.pre = "" /\ raw.body \in NumericIds
     THEN raw.body
     ELSE toLowerCase(raw)

\* normalizeUserId and normalizeUsername of part_003; "" stands for null.
normalizeUserId(x) == IF normalizeTarget(x) \in NumericIds THEN normalizeTarget(x) ELSE ""

normalizeUsername(x) == IF normalizeTarget(x) \in NumericIds THEN "" ELSE normalizeTarget(x)

\* normalizeUserAllowEntry of part_003; type "null" stands for null.
normalizeUserAllowEntry(x) ==
  LET rest == [x EXCEPT !.pre = ""]
      typed(type, value) == [type |-> IF value = "" THEN "null" ELSE type, value |-> value]
  IN IF Text(x) = "" THEN typed("null", "")
     ELSE IF Text(x) = "*" THEN typed("wildcard", "*")
     ELSE IF x.pre \in {"id:", "user:"} THEN typed("id", normalizeUserId(rest))
     ELSE IF x.pre = "username:" THEN typed("username", normalizeUsername(rest))
     ELSE IF normalizeTarget(x) \in NumericIds THEN typed("id", normalizeTarget(x))
     ELSE typed("username", normalizeTarget(x))

\* isUserAllowedByConfig over parseUserAllowEntries(entries).
isUserAllowedByConfig(userId, username, entries) ==
  LET parsed == {normalizeUserAllowEntry(entries[i]) : i \in 1..Len(entries)}
  IN \/ \E e \in parsed : e.type = "wildcard"
     \/ normalizeUserId(userId) # "" /\
          [type |-> "id", value |-> normalizeUserId(userId)] \in parsed
     \/ normalizeUsername(username) # "" /\
          [type |-> "username", value |-> normalizeUsername(username)] \in parsed

\* normalizeChatAllowEntry of part_003.
normalizeChatAllowEntry(x) ==
  LET rest == [x EXCEPT !.pre = ""]
      typed(value) == [type |-> IF value = "" THEN "null" ELSE "chat", value |-> value]
  IN IF Text(x) = "" THEN typed("")
     ELSE IF Text(x) = "*" THEN [type |-> "wildcard", value |-> "*"]
     ELSE IF x.pre \in {"chat:", "group:"} THEN typed(normalizeTarget(rest))
     ELSE typed(normalizeTarget(x))

\* isChatAllowedByConfig over parseChatAllowEntries(entries).
isChatAllowedByConfig(chatId, entries) ==
  LET parsed == {normalizeChatAllowEntry(entries[i]) : i \in 1..Len(entries)}
  IN \/ \E e \in parsed : e.type = "wildcard"
     \/ normalizeTarget(chatId) # "" /\
          [type |-> "chat", value |-> normalizeTarget(chatId)] \in parsed

\* A rejected promise: the error of the store operation, handed on.
Rejected(err) == [kind |-> "threw", reason |-> "", code |-> CodeStr(BogusCode, FALSE), err |-> err]

\* checkDmAccess of part_003.  stored is what isStoredAllowlisted returns or
\* throws, paired what ensurePairingCode returns or throws; each is awaited
\* only on the paths that reach it, and neither inside a try block.
checkDmAccess(userId, username, config, stored, paired) ==
  LET none == CodeStr(BogusCode, FALSE)
      configAllowed == isUserAllowedByConfig(userId, username, config.allowFrom)
      storeAllowed == IF configAllowed THEN FALSE ELSE stored.kind = "true"
      allowedReason == IF configAllowed THEN "Sender is allowlisted via config"
                       ELSE IF storeAllowed THEN "Sender is allowlisted" ELSE ""
  IN IF config.dmPolicy = "disabled" THEN AccessResult(FALSE, "DMs are disabled for this bot", none)
     ELSE IF config.dmPolicy = "open" THEN AccessResult(TRUE, "DM policy is open", none)
     ELSE IF ~configAllowed /\ stored.kind = "threw" THEN Rejected(stored.err)
     ELSE IF config.dmPolicy = "allowlist"
     THEN IF allowedReason # "" THEN AccessResult(TRUE, allowedReason, none)
          ELSE AccessResult(FALSE, "Sender is not allowlisted", none)
     ELSE IF config.dmPolicy = "pairing"
     THEN IF allowedReason # "" THEN AccessResult(TRUE, allowedReason, none)
          ELSE IF paired.kind = "threw" THEN Rejected(paired.err)
          ELSE AccessResult(FALSE, "Sender must complete pairing", paired.code)
     ELSE AccessResult(FALSE, "Unknown DM policy", none)

\* checkGroupAccess of part_003: the configuration only.
checkGroupAccess(chatId, config) ==
  LET none == CodeStr(BogusCode, FALSE)
  IN IF config.groupPolicy = "disabled"
     THEN AccessResult(FALSE, "Group access is disabled for this bot", none)
     ELSE IF config.groupPolicy = "open" THEN AccessResult(TRUE, "Group policy is open", none)
     ELSE IF config.groupPolicy = "allowlist"
     THEN IF isChatAllowedByConfig(chatId, config.groupAllowFrom)
          THEN AccessResult(TRUE, "Group chat is allowlisted", none)
          ELSE AccessResult(FALSE, "Group chat is not allowlisted", none)
     ELSE AccessResult(FALSE, "Unknown group policy", none)

\* ensurePairingCode of part_003 on the pairing store, run to its end with
\* no other process in between: getPendingPairings, then generatePairingCode
\* when the identity has no pending entry.  The plan holds the entries
\* written last, if any, and the code returned or the error thrown.
ensurePairingCode(file, chatId, userId, username, t, code) ==
  IF readStoreThrows(file) THEN Plan("throw", <<>>, Threw("parse", t))
  ELSE LET pending == getPendingPairings(readStore(file), t)
           existing == FindPending(pending.pend, chatId, userId)
           generated == generatePairingCode(pending.pend, chatId, userId, username, t, code)
       IN IF existing # 0
          THEN Plan(pending.act, pending.pend, RetCode(pending.pend[existing].code, t))
          ELSE IF generated.act = "throw"
          THEN Plan(IF pending.act = "write" THEN "write" ELSE "throw", pending.pend, generated.ret)
          ELSE generated

\* isStoredAllowlisted: isAllowed of the allow-list store run to its end.
\* acquireLock never removes a lock file it did not create: with one left
\* behind it throws the timeout error.
isStoredAllowlisted(lockFile, file, userId, username, t) ==
  IF lockFile.exists THEN Threw("timeout", t)
  ELSE IF file.st = "partial" THEN Threw("parse", t)
  ELSE isAllowed(file.entries, userId, username, t).ret

\* ------------------------------------------------------------------------
\* TelegramAccessController of src/unnamed/part_004: the configuration
\* only, no store.

\* matchesAllowlist: allowlist holds the configured entries in lower case.
matchesAllowlist(allowlist, primary, secondary) ==
  /\ Len(allowlist) # 0
  /\ \E i \in 1..Len(allowlist) :
       \/ allowlist[i] = "*"
       \/ Text(primary) # "" /\ allowlist[i] = toLowerCase(primary)
       \/ Text(secondary) # "" /\ allowlist[i] = toLowerCase(secondary)

\* wasBotMentioned answering true for every message.
wasBotMentionedAlways(message, config) == TRUE

\* wasBotMentioned, with the bot's username as setBotUsername stored it.
wasBotMentioned(message, config) ==
  LET lowerMentions == {toLowerCase(message.mentions[i]) : i \in 1..Len(message.mentions)}
      botUsername == toLowerCase(config.botUsername)
  IN /\ Len(message.mentions) # 0
     /\ \/ botUsername # "" /\ botUsername \in lowerMentions
        \/ \E i \in 1..Len(config.mentionKeywords) :
             toLowerCase(config.mentionKeywords[i]) \in lowerMentions

\* evaluateDm, with the constructor's defaults and lower-casing.
evaluateDm(message, config) ==
  LET none == CodeStr(BogusCode, FALSE)
      dmPolicy == IF config.dmPolicy = "" THEN "open" ELSE config.dmPolicy
      dmAllowlist == [i \in 1..Len(config.allowFrom) |-> toLowerCase(config.allowFrom[i])]
  IN IF dmPolicy = "disabled" THEN AccessResult(FALSE, "DMs disabled", none)
     ELSE IF dmPolicy \in {"allowlist", "pairing"}
     THEN IF matchesAllowlist(dmAllowlist, message.senderId, message.senderUsername)
          THEN AccessResult(TRUE, "", none)
          ELSE AccessResult(FALSE, "Sender not in DM allowlist", none)
     ELSE AccessResult(TRUE, "", none)

\* evaluateGroup.
evaluateGroup(message, config) ==
  LET none == CodeStr(BogusCode, FALSE)
      groupPolicy == IF config.groupPolicy = "" THEN "open" ELSE config.groupPolicy
      groupAllowlist == [i \in 1..Len(config.groupAllowFrom) |-> toLowerCase(config.groupAllowFrom[i])]
  IN IF groupPolicy = "disabled" THEN AccessResult(FALSE, "Group messages disabled", none)
     ELSE IF groupPolicy = "allowlist" /\
             ~matchesAllowlist(groupAllowlist, message.chatId, Raw("", FALSE, ""))
     THEN AccessResult(FALSE, "Group not in allowlist", none)
     ELSE IF config.requireMention /\ ~wasBotMentioned(message, config)
     THEN AccessResult(FALSE, "Missing mention", none)
     ELSE AccessResult(TRUE, "", none)

\* evaluate.
evaluate(message, config) ==
  IF message.chatType = "private" THEN evaluateDm(message, config) ELSE evaluateGroup(message, config)

\* ------------------------------------------------------------------------
\* checkGroupAccess of src/telegram/access.ts, over the configuration and
\* the chats of the token allow-list store (part_008, lines 260-480).

\* buildChatMatchToken (targets.ts).
buildChatMatchToken(chatId) == "chat:" \o Text(trim(chatId))

\* normalizeChatAllowEntry of the token store, after stripProtocolPrefix;
\* "" stands for null.
normalizeChatAllowToken(x) ==
  LET value == IF x.pre \in {"telegram:", "tg:"} THEN [x EXCEPT !.pre = ""] ELSE x
      chat == IF value.pre \in {"chat:", "group:"} THEN [value EXCEPT !.pre = ""] ELSE value
  IN IF Text(value) = "" THEN ""
     ELSE IF Text(value) = "*" THEN "wildcard"
     ELSE IF chat.pre = "" /\ chat.at
     THEN IF chat.body = "" THEN "" ELSE "chat:" \o toLowerCase([chat EXCEPT !.at = FALSE])
     ELSE IF Text(chat) = "" THEN "" ELSE "chat:" \o Text(chat)

\* isChatAllowed: the configured entries first, then readAllowlist, which
\* rethrows every error but ENOENT.
isChatAllowed(chatId, overrideEntries, file, t) ==
  LET configSet == {normalizeChatAllowToken(overrideEntries[i]) : i \in 1..Len(overrideEntries)}
  IN IF "wildcard" \in configSet \/ buildChatMatchToken(chatId) \in configSet THEN RetBool(TRUE, t)
     ELSE IF file.st = "partial" THEN Threw("parse", t)
     ELSE IF file.st = "absent" THEN RetBool(FALSE, t)
     ELSE RetBool(\E i \in 1..Len(file.entries) : file.entries[i] = buildChatMatchToken(chatId), t)

\* checkGroupAccess of access.ts; chatAllowed is what isChatAllowed returns
\* or throws.
checkGroupAccessStore(config, chatAllowed) ==
  LET none == CodeStr(BogusCode, FALSE)
  IN IF config.groupPolicy = "disabled"
     THEN AccessResult(FALSE, "Group access is disabled for this bot", none)
     ELSE IF config.groupPolicy = "open" THEN AccessResult(TRUE, "Group policy is open", none)
     ELSE IF config.groupPolicy = "allowlist"
     THEN IF chatAllowed.kind = "threw" THEN Rejected(chatAllowed.err)
          ELSE IF chatAllowed.kind = "true" THEN AccessResult(TRUE, "Group chat is allowlisted", none)
          ELSE AccessResult(FALSE, "Group chat is not allowlisted", none)
     ELSE AccessResult(FALSE, "Unknown group policy", none)

\* ------------------------------------------------------------------------
\* Messages evaluated against the access policy, the operator's approve
\* command and the clock.  Each evaluation and each command runs to its end
\* with no other process in between.

\* Two senders: Telegram hands over a numeric id and, for one of them, a
\* username.  In a DM the chat id is the sender's id.
Senders ==
  {[senderId |-> Str("42"), senderUsername |-> Str("Alice")],
   [senderId |-> Str("77"), senderUsername |-> Str("")]}

DmMessages ==
  {[chatType |-> "private", senderId |-> s.senderId, senderUsername |-> s.senderUsername,
    chatId |-> s.senderId, mentions |-> <<>>] : s \in Senders}

GroupMessages ==
  {[chatType |-> "group", senderId |-> Str("42"), senderUsername |-> Str("Alice"),
    chatId |-> Str(c), mentions |-> m] :
     c \in {"-100", "-200"}, m \in {<<>>, <<Str("bot")>>, <<Str("hey")>>, <<Str("carol")>>}}

\* Configurations: the four DM policies and the three group policies of
\* types.ts, and one value outside each set.
DmConfigs ==
  {[DefaultConfig EXCEPT !.dmPolicy = policy, !.allowFrom = allowFrom] :
     policy \in {"disabled", "open", "allowlist", "pairing", "closed"},
     allowFrom \in {<<>>, <<Str("Alice")>>}}

GroupConfigs ==
  {[DefaultConfig EXCEPT !.groupPolicy = policy, !.groupAllowFrom = allowFrom,
                         !.requireMention = requireMention] :
     policy \in {"disabled", "open", "allowlist", "members"},
     allowFrom \in {<<>>, <<Str("-100")>>, <<Str("*")>>},
     requireMention \in BOOLEAN}

\* Whether the sender, or the chat, is on the allow-list now: in the
\* configured list or in the store.
DmListed(message) ==
  \/ isUserAllowedByConfig(message.senderId, message.senderUsername, botConfig.allowFrom)
  \/ /\ afile.st = "ok"
     /\ isAllowed(afile.entries, Text(message.senderId), message.senderUsername, now).ret.kind = "true"

GroupListed(message) ==
  \/ isChatAllowedByConfig(message.chatId, botConfig.groupAllowFrom)
  \/ efile.st = "ok" /\ \E i \in 1..Len(efile.entries) : efile.entries[i] = buildChatMatchToken(message.chatId)

\* The evaluation is over: its result, and for stating properties whether
\* the sender or chat was listed, and the sender approved, at that time.
Decided(engine, message, result) ==
  decision' = [engine |-> engine, chatType |-> message.chatType, message |-> message,
               listed |-> IF message.chatType = "private" THEN DmListed(message)
                          ELSE GroupListed(message),
               wasApproved |-> \E a \in approved : a.userId = Text(message.senderId),
               wasCut |-> \E c \in ledger.cut : c.userId = Text(message.senderId),
               result |-> result]

\* The bot runs with one configuration.  The allow-list store is empty, or
\* the administrator has added the wildcard: addToAllowlist("*").
InitPolicy ==
  /\ InitOf({}, DmConfigs)
  /\ bfile = Absent /\ bfile0 = Absent /\ cfile = Absent /\ efile = Absent
  /\ afile \in {Absent, Doc(<<parseAllowlistInput(Str("*"))>>)}
  /\ ledger = [NoLedger EXCEPT !.granted = {afile.entries[i] : i \in 1..Len(afile.entries)}]

\* The token store is empty, or addChat("-200") has run.
InitGroup ==
  /\ InitOf({}, GroupConfigs)
  /\ bfile = Absent /\ bfile0 = Absent /\ cfile = Absent /\ afile = Absent
  /\ efile \in {Absent, Doc(<<buildChatMatchToken(Str("-200"))>>)}
  /\ ledger = NoLedger

\* checkDmAccess of part_003 for a DM.
CheckDmAccess ==
  \E message \in DmMessages :
    LET userId == Text(message.senderId)
        stored == isStoredAllowlisted(alock, afile, userId, message.senderUsername, now)
        pairs == /\ botConfig.dmPolicy = "pairing"
                 /\ ~isUserAllowedByConfig(message.senderId, message.senderUsername, botConfig.allowFrom)
                 /\ stored.kind = "false"
        codes == IF pairs /\ ~readStoreThrows(store)
                 THEN createUniqueCode(pruneExpired(readStore(store), now).entries)
                 ELSE {CodeStr(BogusCode, FALSE)}
    IN \E code \in codes :
         LET paired == ensurePairingCode(store, userId, userId, Text(message.senderUsername), now, code)
         IN /\ Decided("part_003", message,
                       checkDmAccess(message.senderId, message.senderUsername, botConfig, stored, paired.ret))
            /\ store' = IF pairs /\ paired.act = "write" THEN Doc(paired.pend) ELSE store
            /\ UNCHANGED <<now, ticks, crashes, lock, tmp, pc, op, ops, start, pend, ret, obs,
                           bfile, cfile, afile, alock, bfile0, efile, botConfig, approved,
                   ledger, call, inbox>>

\* checkGroupAccess of part_003 and of access.ts for a group message.
CheckGroupAccess ==
  \E message \in GroupMessages :
    /\ \/ Decided("part_003", message, checkGroupAccess(message.chatId, botConfig))
       \/ Decided("access.ts", message,
                  checkGroupAccessStore(botConfig, isChatAllowed(message.chatId, botConfig.groupAllowFrom, efile, now)))
    /\ UNCHANGED <<now, ticks, crashes, lock, store, tmp, pc, op, ops, start, pend, ret, obs,
                   bfile, cfile, afile, alock, bfile0, efile, botConfig, approved,
                   ledger, call, inbox>>

\* TelegramAccessController.evaluate of part_004 for a message.
Evaluate(messages) ==
  \E message \in messages :
    /\ Decided("part_004", message, evaluate(message, botConfig))
    /\ UNCHANGED <<now, ticks, crashes, lock, store, tmp, pc, op, ops, start, pend, ret, obs,
                   bfile, cfile, afile, alock, bfile0, efile, botConfig, approved,
                   ledger, call, inbox>>

\* approveCommand adding the username only.
ApprovedUsernameOnly(pairing) == <<Str(pairing.username)>>

\* The entries approveCommand adds for the request approved: the user id,
\* then the username if the request has one.
ApprovedInputs(pairing) ==
  <<Str(pairing.userId)>> \o (IF pairing.username # "" THEN <<Str(pairing.username)>> ELSE <<>>)

\* addToAllowlist of each input in turn, run to its end; "threw" says that
\* one of the calls threw, the calls before it having written.
AddAll(lockFile, file, inputs, t) ==
  IF lockFile.exists THEN [file |-> file, threw |-> TRUE]
  ELSE IF file.st = "partial" THEN [file |-> file, threw |-> TRUE]
  ELSE IF \E i \in 1..Len(inputs) : parseAllowlistInput(inputs[i]).type = "invalid"
  THEN [file |-> file, threw |-> TRUE]
  ELSE LET first == addToAllowlist(file.entries, parseAllowlistInput(inputs[1]), t).pend
           all == IF Len(inputs) = 1 THEN first
                  ELSE addToAllowlist(first, parseAllowlistInput(inputs[2]), t).pend
       IN [file |-> IF all = file.entries /\ file.st = "ok" THEN file ELSE Doc(all), threw |-> FALSE]

\* "nanoclaw pairing approve telegram <code>" of part_000: approvePairing,
\* then addToAllowlist of the user id and of the username.
ApproveCommand ==
  \E code \in {CodeStr(i, l) : i \in Codes, l \in BOOLEAN} :
    LET approval == IF readStoreThrows(store) THEN Plan("throw", <<>>, Threw("parse", now))
                    ELSE approvePairing(readStore(store), code, now)
        found == approval.ret.kind = "entry"
        added == IF found THEN AddAll(alock, afile, ApprovedInputs(approval.ret.entries[1]), now)
                 ELSE [file |-> afile, threw |-> TRUE]
    IN /\ store' = IF approval.act = "write" THEN Doc(approval.pend) ELSE store
       /\ afile' = added.file
       /\ approved' = IF found /\ ~added.threw
                      THEN approved \cup {[userId |-> approval.ret.entries[1].userId,
                                           username |-> approval.ret.entries[1].username]}
                      ELSE approved
       /\ ledger' = IF found /\ ~added.threw
                    THEN [ledger EXCEPT !.granted = @ \cup
                            {parseAllowlistInput(ApprovedInputs(approval.ret.entries[1])[i]) :
                               i \in 1..Len(ApprovedInputs(approval.ret.entries[1]))}]
                    ELSE ledger
       /\ UNCHANGED <<now, ticks, crashes, lock, tmp, pc, op, ops, start, pend, ret, obs,
                      bfile, cfile, alock, bfile0, efile, botConfig, decision, call, inbox>>

\* approveCommand killed between its two awaits: approvePairing has written
\* the pairing store, addToAllowlist has not started.
ApproveKilled ==
  \E code \in {CodeStr(i, FALSE) : i \in Codes} :
    LET approval == IF readStoreThrows(store) THEN Plan("throw", <<>>, Threw("parse", now))
                    ELSE approvePairing(readStore(store), code, now)
    IN /\ crashes < MaxCrashes
       /\ approval.ret.kind = "entry"
       /\ crashes' = crashes + 1
       /\ store' = IF approval.act = "write" THEN Doc(approval.pend) ELSE store
       /\ ledger' = [ledger EXCEPT !.cut = {[userId |-> approval.ret.entries[1].userId,
                                             code |-> approval.ret.entries[1].code]}]
       /\ UNCHANGED <<now, ticks, lock, tmp, pc, op, ops, start, pend, ret, obs,
                      bfile, cfile, afile, alock, bfile0, efile, botConfig, decision, approved,
                      call, inbox>>

\* "nanoclaw pairing reject telegram <code>" of part_000: rejectPairing.
RejectCommand ==
  \E code \in {CodeStr(i, FALSE) : i \in Codes} :
    LET rejection == IF readStoreThrows(store) THEN Plan("throw", <<>>, Threw("parse", now))
                     ELSE rejectPairing(readStore(store), code, now)
    IN /\ store' = IF rejection.act = "write" THEN Doc(rejection.pend) ELSE store
       /\ store' # store
       /\ UNCHANGED <<now, ticks, crashes, lock, tmp, pc, op, ops, start, pend, ret, obs,
                      bfile, cfile, afile, alock, bfile0, efile, botConfig, decision, approved,
                      ledger, call, inbox>>

\* A process running addToAllowlist is killed inside fs.writeFile: the file
\* is truncated, the lock file stays.
KilledInWrite ==
  /\ crashes < MaxCrashes
  /\ ~alock.exists
  /\ crashes' = crashes + 1
  /\ afile' = Partial
  /\ alock' = [exists |-> TRUE, creator |-> "p2", pid |-> NoProc, mtime |-> now]
  /\ UNCHANGED <<now, ticks, lock, store, tmp, pc, op, ops, start, pend, ret, obs,
                 bfile, cfile, bfile0, efile, botConfig, decision, approved,
                 ledger, call, inbox>>

\* DMs under every policy, with the pairing store, the allow-list store
\* and the approve command.
NextPolicy ==
  \/ CheckDmAccess
  \/ Evaluate(DmMessages)
  \/ ApproveCommand
  \/ KilledInWrite
  \/ TickExpiry

SpecPolicy == InitPolicy /\ [][NextPolicy]_vars

\* The bot under policy pairing with nobody listed, and the operator
\* approving and rejecting, with the operator's process killed at the two
\* places where it leaves the stores out of step.
InitApproval ==
  /\ InitOf({}, {DefaultConfig})
  /\ bfile = Absent /\ bfile0 = Absent /\ cfile = Absent /\ efile = Absent
  /\ afile = Absent
  /\ ledger = NoLedger

\* The clock reaches the first expiry; later ones are not followed here.
FirstExpiry == ticks = 0 /\ TickExpiry

NextApproval ==
  \/ CheckDmAccess
  \/ ApproveCommand
  \/ ApproveKilled
  \/ RejectCommand
  \/ KilledInWrite
  \/ FirstExpiry

SpecApproval == InitApproval /\ [][NextApproval]_vars

\* Group messages under every policy.
NextGroup ==
  \/ CheckGroupAccess
  \/ Evaluate(GroupMessages)

SpecGroup == InitGroup /\ [][NextGroup]_vars

\* ------------------------------------------------------------------------
\* Properties of the access policy

DmPolicies == {"disabled", "open", "allowlist", "pairing"}

GroupPolicies == {"disabled", "open", "allowlist"}

\* C14: a DM evaluated under a recognized policy is denied under disabled,
\* allowed under open, and under allowlist and pairing allowed exactly when
\* the sender is on the allow-list, in the configured list or in the store.
C14_DmTable ==
  (decision.chatType = "private" /\ decision.result.kind # "threw"
     /\ botConfig.dmPolicy \in DmPolicies)
    => decision.result.kind =
         (IF botConfig.dmPolicy = "disabled" THEN "deny"
          ELSE IF botConfig.dmPolicy = "open" THEN "allow"
          ELSE IF decision.listed THEN "allow" ELSE "deny")

\* C15: an evaluation of a DM under policy pairing for a sender that is not
\* on the allow-list ends with a deny that carries a code, and with a
\* request of the sender under that code, not expired, in the pairing store.
C15_PairingIssued ==
  [][(/\ decision' # decision
      /\ decision'.chatType = "private" /\ botConfig.dmPolicy = "pairing"
      /\ ~decision'.listed /\ decision'.result.kind # "threw")
     => /\ decision'.result.kind = "deny"
        /\ \E i \in 1..Len(readStore(store')) :
             /\ readStore(store')[i].code = decision'.result.code
             /\ readStore(store')[i].userId = Text(decision'.message.senderId)
             /\ readStore(store')[i].expiresAt > now']_vars

\* C16: under a DM policy or a group policy outside the recognized values,
\* every evaluation ends with a deny that has a reason.
C16_FailClosed ==
  (\/ decision.chatType = "private" /\ botConfig.dmPolicy \notin DmPolicies
   \/ decision.chatType = "group" /\ botConfig.groupPolicy \notin GroupPolicies)
    => decision.result.kind = "deny" /\ decision.result.reason # ""

\* C17: no evaluation throws: when a store operation fails, checkDmAccess
\* and checkGroupAccess still return a decision, and it is a deny.
C17_NeverRaises == decision.result.kind # "threw"

\* C18: a group message evaluated under a recognized policy, mention gating
\* aside, is denied under disabled, allowed under open, and under allowlist
\* allowed exactly when the chat is on the allow-list, in the configured
\* list or in the store.
C18_GroupTable ==
  (decision.chatType = "group" /\ decision.result.kind # "threw"
     /\ botConfig.groupPolicy \in GroupPolicies
     /\ (decision.engine = "part_004" => ~botConfig.requireMention))
    => decision.result.kind =
         (IF botConfig.groupPolicy = "disabled" THEN "deny"
          ELSE IF botConfig.groupPolicy = "open" THEN "allow"
          ELSE IF decision.listed THEN "allow" ELSE "deny")

\* C19: with requireMention, the controller allows a group message only if
\* its mentions hold the bot's username or a configured keyword, and only
\* if the group policy does not deny the chat: the policy is not disabled,
\* and under allowlist the chat is listed.
C19_MentionRequired ==
  (decision.engine = "part_004" /\ decision.chatType = "group" /\ botConfig.requireMention
     /\ decision.result.kind = "allow")
    => /\ \E i \in 1..Len(decision.message.mentions) :
            \/ toLowerCase(decision.message.mentions[i]) = toLowerCase(botConfig.botUsername)
            \/ \E k \in 1..Len(botConfig.mentionKeywords) :
                 toLowerCase(decision.message.mentions[i]) = toLowerCase(botConfig.mentionKeywords[k])
       /\ botConfig.groupPolicy # "disabled"
       /\ botConfig.groupPolicy = "allowlist" => decision.listed

\* A group message that names a keyword is allowed in a listed chat, with
\* requireMention.
C19_Witness ==
  /\ decision.engine = "part_004" /\ decision.chatType = "group" /\ botConfig.requireMention
  /\ botConfig.groupPolicy = "allowlist" /\ decision.result.kind = "allow"
  /\ decision.message.mentions = <<Str("hey")>>

Readable(file) == IF file.st = "ok" THEN {file.entries[i] : i \in 1..Len(file.entries)} ELSE {}

\* C21: every entry of the allow-list store was written by an approve
\* command or by an add of the administrator, whatever was evaluated,
\* issued, rejected or expired meanwhile; and every entry so written is
\* still in the store unless a command was asked to remove it.
C21_EntriesByCommandOnly ==
  /\ Readable(afile) \subseteq ledger.granted
  /\ (ledger.granted \ ledger.revoked) \subseteq Readable(afile)

\* C22: the step that cuts approveCommand short between the two stores
\* leaves the request out of the pairing store and the allow-list store as
\* it was; and checkDmAccess under policy pairing answers a later DM of
\* that sender, still not on the allow-list, with a deny that carries a
\* code, a request under that code being in the pairing store.
C22_CutApprovalRepairs ==
  [][/\ \A c \in ledger'.cut \ ledger.cut :
          /\ \A i \in 1..Len(readStore(store')) : readStore(store')[i].code # c.code
          /\ afile' = afile
     /\ (/\ decision' # decision
         /\ decision'.engine = "part_003" /\ decision'.chatType = "private"
         /\ botConfig.dmPolicy = "pairing" /\ decision'.wasCut
         /\ ~decision'.listed /\ decision'.result.kind # "threw")
        => /\ decision'.result.kind = "deny"
           /\ \E i \in 1..Len(readStore(store')) :
                /\ readStore(store')[i].code = decision'.result.code
                /\ readStore(store')[i].userId = Text(decision'.message.senderId)
                /\ readStore(store')[i].expiresAt > now']_vars

\* A sender whose approval was cut short sent a DM, was denied and holds a
\* request under a code other than the one approved.
C22_Witness ==
  /\ decision.engine = "part_003" /\ botConfig.dmPolicy = "pairing"
  /\ decision.wasCut /\ ~decision.listed /\ decision.result.kind = "deny"
  /\ \E i \in 1..Len(readStore(store)) :
       /\ readStore(store)[i].code = decision.result.code
       /\ readStore(store)[i].userId = Text(decision.message.senderId)
       /\ \A c \in ledger.cut : c.code # decision.result.code

\* C23: whenever no writer is inside its write, the file of the pairing
\* store and the file of the allow-list store each hold a whole document,
\* the one before the write or the one after it, also after a writer was
\* killed: none is left partially written or truncated.
C23_WholeDocuments ==
  /\ store.st # "partial"
  /\ (\A p \in Procs : pc[p] # "a_write") => afile.st # "partial"

\* ------------------------------------------------------------------------
\* The two allow-list stores and the controller's matchesAllowlist, call by
\* call: each call runs to its end with the lock free and the file whole,
\* and is kept in "call" with the file before and after it.

\* normalizeTelegramId and normalizeUsername of targets.ts; "" stands for
\* undefined.
normalizeTelegramId(x) == Text(trim(x))

normalizeUsernameTarget(x) ==
  toLowerCase(trim(IF x.pre = "" THEN [x EXCEPT !.at = FALSE] ELSE x))

\* buildUserMatchTokens: the id token, then the username token.
buildUserMatchTokens(userId, username) ==
  (IF normalizeTelegramId(userId) # "" THEN <<"id:" \o normalizeTelegramId(userId)>> ELSE <<>>)
    \o (IF normalizeUsernameTarget(username) # ""
        THEN <<"username:" \o normalizeUsernameTarget(username)>> ELSE <<>>)

\* normalizeUserAllowEntry of the token store, after stripProtocolPrefix;
\* "" stands for null.
normalizeUserAllowToken(x) ==
  LET value == trim(IF x.pre \in {"telegram:", "tg:"} THEN [x EXCEPT !.pre = ""] ELSE x)
      rest == [value EXCEPT !.pre = ""]
      named(username) == IF username = "" THEN "" ELSE "username:" \o username
  IN IF Text(value) = "" THEN ""
     ELSE IF Text(value) = "*" THEN "wildcard"
     ELSE IF value.pre \in {"user:", "id:"}
     THEN IF normalizeTelegramId(rest) = "" THEN "" ELSE "id:" \o normalizeTelegramId(rest)
     ELSE IF value.pre = "username:" THEN named(normalizeUsernameTarget(rest))
     ELSE IF value.pre = "" /\ value.at THEN named(normalizeUsernameTarget(Str(value.body)))
     ELSE IF value.pre = "" /\ value.body \in NumericIds THEN "id:" \o value.body
     ELSE named(normalizeUsernameTarget(value))

\* isAllowed of the token store: the configured entries first, then
\* readAllowlist, which rethrows every error but ENOENT.
isAllowedByTokens(target, overrideEntries, file, t) ==
  LET tokens == buildUserMatchTokens(target.userId, target.username)
      configSet == {normalizeUserAllowToken(overrideEntries[i]) : i \in 1..Len(overrideEntries)}
  IN IF "wildcard" \in configSet \/ \E i \in 1..Len(tokens) : tokens[i] \in configSet
     THEN RetBool(TRUE, t)
     ELSE IF file.st = "partial" THEN Threw("parse", t)
     ELSE RetBool(\E i \in 1..Len(tokens) : \E j \in 1..Len(file.entries) : file.entries[j] = tokens[i], t)

\* new Set([...list, ...tokens]) as an array: the tokens not yet there are
\* appended.
Merged(list, tokens) ==
  list \o SelectSeq(tokens, LAMBDA k : \A j \in 1..Len(list) : list[j] # k)

\* addUser and addChat of the token store on the file read; the file holds
\* the tokens of "users" and of "chats", which their prefixes keep apart.
addUser(file, target, t) ==
  LET tokens == buildUserMatchTokens(target.userId, target.username)
  IN IF Len(tokens) = 0 THEN Plan("return", file.entries, RetVoid(t))
     ELSE IF file.st = "partial" THEN Plan("throw", <<>>, Threw("parse", t))
     ELSE Plan("write", Merged(file.entries, tokens), RetVoid(t))

addChat(file, chatId, t) ==
  LET chatToken == buildChatMatchToken(chatId)
  IN IF chatToken = "" THEN Plan("return", file.entries, RetVoid(t))
     ELSE IF file.st = "partial" THEN Plan("throw", <<>>, Threw("parse", t))
     ELSE Plan("write", Merged(file.entries, <<chatToken>>), RetVoid(t))

\* The persisted list may grow to this many entries.
MaxEntries == 3

\* Identities: a user with a username, a user without, a group chat, and
\* the target with nothing in it.
Alice == [userId |-> Str("42"), username |-> Str("Alice")]
Dave == [userId |-> Str("77"), username |-> Str("")]
Group == [userId |-> Str("-100"), username |-> Str("")]
Nobody == [userId |-> Str(""), username |-> Str("")]

Typed(raw, who) == [type |-> "string", raw |-> raw, who |-> who]

Number(finite, trunc, who) == [type |-> "number", finite |-> finite, trunc |-> trunc, who |-> who]

\* What the operator types for add and remove: spellings of an identity
\* ("who" says whose), the wildcard, and inputs that are no entry at all.
Spellings ==
  {Typed(Str("42"), Alice), Typed(Str("Alice"), Alice), Typed(Raw("", TRUE, "alice"), Alice),
   Typed(Raw("telegram:", FALSE, "alice"), Alice), Typed(Raw("tg:", FALSE, "42"), Alice),
   Typed(Str("-100"), Group), Number(TRUE, "42", Alice)}

NoEntries ==
  {Typed(Str(""), Nobody), Typed(Str(" "), Nobody), Typed(Raw("", TRUE, ""), Nobody),
   Number(FALSE, "NaN", Nobody)}

AllowInputs == Spellings \cup NoEntries \cup {Typed(Str("*"), Nobody)}

\* The lists handed to saveAllowlist.
SaveLists ==
  {<<>>,
   <<[type |-> "wildcard", value |-> "*"]>>,
   <<[type |-> "id", value |-> "42"], [type |-> "id", value |-> "42"]>>,
   <<[type |-> "username", value |-> "Alice"], [type |-> "username", value |-> "alice"]>>}

\* parseAllowlistInput by typeof entry.
Parsed(input) ==
  IF input.type = "number" THEN parseAllowlistNumber(input) ELSE parseAllowlistInput(input.raw)

Call(kind, input, list, before, after, r, locked, wrote) ==
  [kind |-> kind, input |-> input, list |-> list, before |-> before, after |-> after,
   ret |-> IF r.kind = "threw" THEN r.err ELSE r.kind, locked |-> locked, wrote |-> wrote]

offCalls == <<now, ticks, crashes, lock, store, tmp, pc, op, ops, start, pend, ret, obs,
              bfile, cfile, alock, bfile0, botConfig, decision, approved, ledger, inbox>>

\* A call of the allow-list store that parses its input and then runs fn
\* under withFileLock.
StoreCall(kind, input, plan) ==
  IF Parsed(input).type = "invalid"
  THEN /\ call' = Call(kind, input, <<>>, afile.entries, afile.entries, Threw("validation", now), FALSE, FALSE)
       /\ UNCHANGED afile
  ELSE /\ Len(plan.pend) <= MaxEntries
       /\ afile' = IF plan.act = "write" THEN Doc(plan.pend) ELSE afile
       /\ call' = Call(kind, input, <<>>, afile.entries, IF plan.act = "write" THEN plan.pend ELSE afile.entries,
                       plan.ret, TRUE, plan.act = "write")

AddToAllowlist ==
  \E input \in AllowInputs :
    /\ StoreCall("add", input, addToAllowlist(afile.entries, Parsed(input), now))
    /\ UNCHANGED <<efile, offCalls>>

RemoveFromAllowlist ==
  \E input \in AllowInputs :
    /\ StoreCall("remove", input, removeFromAllowlist(afile.entries, Parsed(input), now))
    /\ UNCHANGED <<efile, offCalls>>

SaveAllowlist ==
  \E entries \in SaveLists :
    LET plan == saveAllowlist(entries, now)
    IN /\ afile' = IF plan.act = "write" THEN Doc(plan.pend) ELSE afile
       /\ call' = Call("save", entries, <<>>, afile.entries,
                       IF plan.act = "write" THEN plan.pend ELSE afile.entries,
                       plan.ret, plan.act = "write", plan.act = "write")
       /\ UNCHANGED <<efile, offCalls>>

IsAllowed ==
  \E who \in {Alice, Dave, Nobody} :
    /\ call' = Call("isAllowed", who, <<>>, afile.entries, afile.entries,
                    isAllowed(afile.entries, Text(trim(who.userId)), who.username, now).ret, TRUE, FALSE)
    /\ UNCHANGED <<afile, efile, offCalls>>

\* The token store: addUser, addChat, isAllowed and isChatAllowed with the
\* entries of the configuration.
AddUser ==
  \E target \in {Alice, Nobody, [userId |-> Str(" "), username |-> Str("")]} :
    LET plan == addUser(efile, target, now)
    IN /\ efile' = IF plan.act = "write" THEN Doc(plan.pend) ELSE efile
       /\ call' = Call("addUser", target, <<>>, efile.entries,
                       IF plan.act = "write" THEN plan.pend ELSE efile.entries, plan.ret, FALSE, plan.act = "write")
       /\ UNCHANGED <<afile, offCalls>>

AddChat ==
  \E chatId \in {Str("-100"), Str(""), Str(" ")} :
    LET plan == addChat(efile, chatId, now)
    IN /\ efile' = IF plan.act = "write" THEN Doc(plan.pend) ELSE efile
       /\ call' = Call("addChat", chatId, <<>>, efile.entries,
                       IF plan.act = "write" THEN plan.pend ELSE efile.entries, plan.ret, FALSE, plan.act = "write")
       /\ UNCHANGED <<afile, offCalls>>

ConfigLists == {<<>>, <<Str("*")>>, <<Raw("", TRUE, "alice")>>, <<Str("-100")>>}

IsAllowedByTokens ==
  \E target \in {Alice, Dave, Nobody}, overrideEntries \in ConfigLists :
    /\ call' = Call("isAllowedByTokens", target, overrideEntries, efile.entries, efile.entries,
                    isAllowedByTokens(target, overrideEntries, efile, now), FALSE, FALSE)
    /\ UNCHANGED <<afile, efile, offCalls>>

IsChatAllowed ==
  \E chatId \in {Str("-100"), Str("-200"), Str("")}, overrideEntries \in ConfigLists :
    /\ call' = Call("isChatAllowed", chatId, overrideEntries, efile.entries, efile.entries,
                    isChatAllowed(chatId, overrideEntries, efile, now), FALSE, FALSE)
    /\ UNCHANGED <<afile, efile, offCalls>>

\* matchesAllowlist of the controller, on a list the constructor lower-cased.
MatchesAllowlist ==
  \E who \in {Alice, Dave, Nobody}, allowlist \in ConfigLists :
    /\ call' = Call("matchesAllowlist", who, allowlist, <<>>, <<>>,
                    RetBool(matchesAllowlist([i \in 1..Len(allowlist) |-> toLowerCase(allowlist[i])],
                                             who.userId, who.username), now),
                    FALSE, FALSE)
    /\ UNCHANGED <<afile, efile, offCalls>>

InitCalls ==
  /\ InitOf({}, {DefaultConfig})
  /\ bfile = Absent /\ bfile0 = Absent /\ cfile = Absent /\ efile = Absent
  /\ afile = Absent
  /\ ledger = NoLedger

\* The allow-list store with its add, remove, save and lookup, and the
\* lookups that go by the configured list.
NextCalls ==
  \/ AddToAllowlist
  \/ RemoveFromAllowlist
  \/ SaveAllowlist
  \/ IsAllowed
  \/ IsAllowedByTokens
  \/ IsChatAllowed
  \/ MatchesAllowlist

SpecCalls == InitCalls /\ [][NextCalls]_vars

\* The token store with its adds and lookups.
NextTokens ==
  \/ AddUser
  \/ AddChat
  \/ IsAllowedByTokens
  \/ IsChatAllowed

SpecTokens == InitCalls /\ [][NextTokens]_vars

Wildcard == [type |-> "wildcard", value |-> "*"]

Has(list, e) == \E i \in 1..Len(list) : list[i] = e

\* C24: the persisted list of the allow-list store never holds two entries
\* with the same type and value, and an add of an entry that is in the list
\* leaves the list as it was.
C24_OneEntryPerPair ==
  /\ \A i, j \in 1..Len(afile.entries) : afile.entries[i] = afile.entries[j] => i = j
  /\ (call.kind = "add" /\ call.ret = "void" /\ Has(call.before, Parsed(call.input)))
       => call.after = call.before

C26_RemoveFrame ==
  (call.kind = "remove" /\ call.ret \in {"true", "false"})
    => /\ call.ret = "true" <=> Has(call.before, Parsed(call.input))
       /\ ~Has(call.after, Parsed(call.input))
       /\ call.after = SelectSeq(call.before, LAMBDA e : e # Parsed(call.input))
       /\ afile.entries = call.after
       /\ call.ret = "false" => ~call.wrote /\ call.after = call.before

\* An entry standing twice in the file, between two others, was removed.
C26_Witness ==
  /\ call.kind = "remove" /\ call.ret = "true"
  /\ Len(call.before) = 3 /\ Len(call.after) = 1

\* C27: an input that spells no id, no username and not the wildcard makes
\* add and remove, of either store, throw a validation error with no lock
\* taken and the file as it was.
C27_InvalidInputRejected ==
  (\/ call.kind \in {"add", "remove"} /\ call.input \in NoEntries
   \/ call.kind = "addUser" /\ Text(trim(call.input.userId)) = "" /\ Text(trim(call.input.username)) = ""
   \/ call.kind = "addChat" /\ Text(trim(call.input)) = "")
    => call.ret = "validation" /\ ~call.locked /\ ~call.wrote /\ call.after = call.before

\* C28: after add of a spelling of an identity, isAllowed for that
\* identity's id and username answers true.
C28_AddedIsFound ==
  (call.kind = "add" /\ call.ret = "void" /\ call.input \in Spellings)
    => isAllowed(afile.entries, Text(call.input.who.userId), call.input.who.username, now).ret.kind = "true"

\* ------------------------------------------------------------------------
\* normalizeTarget (src/unnamed/part_009, lines 23-29 and 54-81) on strings
\* spelled as sequences of character groups, so that its result can be
\* handed to it again.

\* A string has at most this many groups.
MaxLen == 3

\* The groups: the prefixes, one of them in capitals, "@", whitespace, a
\* name in two casings, digits, and the minus sign.
Groups == {"telegram:", "TG:", "@", " ", "Foo", "foo", "42", "-"}

TELEGRAM_PREFIXES == {"telegram:", "tg:"}

lower(g) == CASE g = "TG:" -> "tg:" [] g = "Foo" -> "foo" [] OTHER -> g

toLowerCaseChars(s) == [i \in 1..Len(s) |-> lower(s[i])]

RECURSIVE trimStart(_)
trimStart(s) == IF s # <<>> /\ Head(s) = " " THEN trimStart(Tail(s)) ELSE s

RECURSIVE trimEnd(_)
trimEnd(s) == IF s # <<>> /\ s[Len(s)] = " " THEN trimEnd(SubSeq(s, 1, Len(s) - 1)) ELSE s

trimChars(s) == trimEnd(trimStart(s))

\* stripPrefixes: the first prefix that matches is sliced off, once.
stripPrefixes(value) ==
  LET candidate == trimChars(value)
  IN IF candidate = <<>> THEN <<>>
     ELSE IF lower(Head(candidate)) \in TELEGRAM_PREFIXES THEN trimChars(Tail(candidate))
     ELSE candidate

\* extractRawTarget: one leading "@" is sliced off.
extractRawTarget(target) ==
  LET value == stripPrefixes(target)
  IN trimChars(IF value # <<>> /\ Head(value) = "@" THEN Tail(value) ELSE value)

\* NUMERIC_ID_REGEX /^-?\d+$/
isNumericValue(value) ==
  LET digits == IF value # <<>> /\ Head(value) = "-" THEN Tail(value) ELSE value
  IN digits # <<>> /\ \A i \in 1..Len(digits) : digits[i] = "42"

normalizeTargetChars(target) ==
  LET raw == extractRawTarget(target)
  IN IF raw = <<>> THEN <<>>
     ELSE IF isNumericValue(raw) THEN raw ELSE toLowerCaseChars(raw)

RECURSIVE StringsUpTo(_)
StringsUpTo(n) ==
  IF n = 0 THEN {<<>>}
  ELSE StringsUpTo(n - 1) \cup {Append(s, g) : s \in StringsUpTo(n - 1), g \in Groups}

\* Every string is handed to normalizeTarget, and the result once more.
InitTargets ==
  /\ InitOf({}, {DefaultConfig})
  /\ bfile = Absent /\ bfile0 = Absent /\ cfile = Absent /\ efile = Absent
  /\ afile = Absent
  /\ ledger = NoLedger

NormalizeTarget ==
  \E x \in StringsUpTo(MaxLen) :
    /\ call' = [kind |-> "once", input |-> x, once |-> normalizeTargetChars(x), twice |-> <<>>]
    /\ UNCHANGED <<afile, efile, offCalls>>

NormalizeAgain ==
  /\ call.kind = "once"
  /\ call' = [call EXCEPT !.kind = "twice", !.twice = normalizeTargetChars(call.once)]
  /\ UNCHANGED <<afile, efile, offCalls>>

NextTargets ==
  \/ NormalizeTarget
  \/ NormalizeAgain

SpecTargets == InitTargets /\ [][NextTargets]_vars

\* The spellings of the username foo: either casing, with or without one
\* prefix, with or without one "@" after it.
FooSpellings ==
  {pre \o at \o <<name>> :
     pre \in {<<>>, <<"telegram:">>, <<"TG:">>}, at \in {<<>>, <<"@">>}, name \in {"Foo", "foo"}}

\* C29: normalizeTarget applied to its own result returns that result, for
\* every string; and every spelling of one username returns the same value.
C29_NormalizeIdempotent ==
  /\ call.kind = "twice" => call.twice = call.once
  /\ (call.kind \in {"once", "twice"} /\ call.input \in FooSpellings) => call.once = <<"foo">>

\* ------------------------------------------------------------------------
\* The Telegram channel (src/src/channels/telegram.ts): inbound messages go
\* through the access controller before the handlers registered with
\* onMessage get them.

MessageHandlers == {"h1", "h2"}

\* handleIncomingMessage that lets every message through.
blockedNever(d) == FALSE

\* "if (!decision.allowed) return"
blocked(d) == d.kind # "allow"

\* onMessage
OnMessage ==
  \E handler \in MessageHandlers :
    /\ handler \notin inbox.handlers
    /\ inbox' = [inbox EXCEPT !.handlers = @ \cup {handler}]
    /\ UNCHANGED <<now, ticks, crashes, lock, store, tmp, pc, op, ops, start, pend, ret, obs,
                   bfile, cfile, afile, alock, bfile0, efile, botConfig, decision, approved,
                   ledger, call>>

\* handleIncomingMessage: normalizeMessage, access.evaluate, and for a
\* message let through emitMessage, which calls every handler.
HandleIncomingMessage ==
  \E message \in DmMessages \cup GroupMessages :
    LET d == evaluate(message, botConfig)
    IN /\ Decided("channel", message, d)
       /\ inbox' = [inbox EXCEPT !.invoked = IF blocked(d) THEN {} ELSE inbox.handlers]
       /\ UNCHANGED <<now, ticks, crashes, lock, store, tmp, pc, op, ops, start, pend, ret, obs,
                      bfile, cfile, afile, alock, bfile0, efile, botConfig, approved,
                      ledger, call>>

InitChannel ==
  /\ InitOf({}, DmConfigs \cup GroupConfigs)
  /\ bfile = Absent /\ bfile0 = Absent /\ cfile = Absent /\ efile = Absent
  /\ afile = Absent
  /\ ledger = NoLedger

NextChannel ==
  \/ OnMessage
  \/ HandleIncomingMessage

SpecChannel == InitChannel /\ [][NextChannel]_vars

\* C30: a handler is invoked for an inbound message only if the access
\* controller allowed the message; for a message it denied, none is.
C30_DeliveredOnlyIfAllowed ==
  decision.engine = "channel"
    => /\ inbox.invoked # {} => decision.result.kind = "allow"
       /\ decision.result.kind = "deny" => inbox.invoked = {}

\* Two handlers got a group message that mentions the bot, and a message
\* the controller allowed.
C30_Witness ==
  /\ decision.engine = "channel" /\ decision.chatType = "group"
  /\ botConfig.requireMention /\ decision.result.kind = "allow"
  /\ inbox.invoked = MessageHandlers

\* ------------------------------------------------------------------------
\* The operations of the lock-guarded pairing store (pairing-store.ts), call
\* by call: one caller, each call run from acquireLock to releaseLock with
\* no other process inside an operation.

\* A document that JSON.parse accepts and that is neither an array nor an
\* object with an array under "pairings": readStore takes no candidates
\* from it.
WrongShape == [st |-> "shape", entries |-> <<>>]

offPairing == <<ticks, crashes, lock, tmp, pc, op, ops, start, pend, ret, obs,
                bfile, cfile, afile, alock, bfile0, efile, botConfig, decision, approved,
                ledger, inbox>>

\* What a call found, returned and left: before and after are the entries
\* readStore gives for the file before and after the call.
PairingCall(kind, input, plan) ==
  /\ store' = IF plan.act = "write" THEN Doc(plan.pend) ELSE store
  /\ call' = [kind |-> kind, input |-> input, file |-> store, at |-> now,
              before |-> readStore(store),
              after |-> IF plan.act = "write" THEN plan.pend ELSE readStore(store),
              ret |-> IF plan.ret.kind = "threw" THEN plan.ret.err ELSE plan.ret.kind,
              result |-> plan.ret, wrote |-> plan.act = "write"]
  /\ UNCHANGED <<now, offPairing>>

\* The call under withLock: readStore throws on a document JSON.parse
\* rejects, and the handler's body does not run.
Locked(kind, input, plan) ==
  PairingCall(kind, input,
              IF readStoreThrows(store) THEN Plan("throw", <<>>, Threw("parse", now)) ELSE plan)

GeneratePairingCode ==
  \E k \in Chats, u \in Users :
    \E code \in CodeChoices([NoOp EXCEPT !.kind = "generate", !.chatId = k], readStore(store), now) :
      Locked("generate", [chatId |-> k, userId |-> u],
             generatePairingCode(readStore(store), k, u, "", now, code))

GetPendingPairings == Locked("list", "", getPendingPairings(readStore(store), now))

ApprovePairing ==
  \E code \in CodeInputs : Locked("approve", code, approvePairing(readStore(store), code, now))

RejectPairing ==
  \E code \in CodeInputs : Locked("reject", code, rejectPairing(readStore(store), code, now))

CleanExpired == Locked("clean", "", cleanExpired(readStore(store), now))

\* The state in which the calls of a store are followed one by one, at
\* time t: no process is inside an operation.
InitHarness(t) ==
  /\ alock = NoLock /\ now = t /\ ticks = 0 /\ crashes = 0 /\ lock = NoLock
  /\ tmp = Absent
  /\ pc = [p \in Procs |-> "off"]
  /\ op = [p \in Procs |-> NoOp]
  /\ ops = [p \in Procs |-> 0]
  /\ start = [p \in Procs |-> 0]
  /\ pend = [p \in Procs |-> <<>>]
  /\ ret = [p \in Procs |-> NoRet]
  /\ obs = [p \in Procs |-> NoObs]
  /\ botConfig = DefaultConfig
  /\ decision = NoDecision
  /\ approved = {}
  /\ call = NoCall
  /\ inbox = NoInbox
  /\ cfile = Absent /\ efile = Absent /\ afile = Absent
  /\ ledger = NoLedger

\* The file is missing, or was left by hand or by a crash in a state no
\* writeStore leaves: cut short, or of another shape.
InitPairing ==
  /\ InitHarness(0)
  /\ store \in {Absent, Partial, WrongShape}
  /\ bfile = Absent /\ bfile0 = Absent

\* A millisecond passes after the first call.
TickMs ==
  /\ ticks = 0
  /\ call.kind # "none"
  /\ now' = now + 1
  /\ ticks' = ticks + 1
  /\ UNCHANGED <<crashes, lock, store, tmp, pc, op, ops, start, pend, ret, obs, elsewhere>>

\* A request expires, before or after that millisecond.
ThenExpiry == ticks <= 1 /\ TickExpiry

NextPairing ==
  \/ GeneratePairingCode
  \/ GetPendingPairings
  \/ ApprovePairing
  \/ RejectPairing
  \/ CleanExpired
  \/ TickMs
  \/ ThenExpiry

SpecPairing == InitPairing /\ [][NextPairing]_vars

\* The entries of a list that are not expired at time t.
Live(entries, t) == SelectSeq(entries, LAMBDA e : e.expiresAt > t)

InChat(entries, chatId) == SelectSeq(entries, LAMBDA e : e.chatId = chatId)

\* C31: a generatePairingCode for a chat that holds MAX_PENDING_PER_CHAT
\* requests that are not expired throws; the file is not written, and the
\* requests that are not expired are those of before the call.
C31_QuotaRejects ==
  (call.kind = "generate" /\ call.ret # "parse"
     /\ Len(InChat(Live(call.before, call.at), call.input.chatId)) >= MAX_PENDING_PER_CHAT)
    => /\ call.ret = "quota"
       /\ ~call.wrote
       /\ call.after = call.before
       /\ store = call.file

\* A fourth request was asked for a chat with three requests pending, after
\* earlier requests had expired.
C31_Witness ==
  /\ call.kind = "generate" /\ call.ret = "quota"
  /\ Len(Live(call.before, call.at)) = 3
  /\ call.at > PAIRING_TTL_MS
  /\ store = call.file

\* C33: getPendingPairings returns the stored requests that are not expired;
\* when one was expired the file is written and holds the list returned,
\* and when none was the file is not written and is as it was.
C33_ListPrunes ==
  (call.kind = "list" /\ call.ret = "entries")
    => /\ call.result.entries = Live(call.before, call.at)
       /\ IF Len(Live(call.before, call.at)) # Len(call.before)
          THEN call.wrote /\ store = Doc(call.result.entries)
          ELSE ~call.wrote /\ store = call.file

\* A list found an expired request before one that was not, and wrote.
C33_Witness ==
  /\ call.kind = "list" /\ call.wrote
  /\ Len(call.before) = 2 /\ Len(call.result.entries) = 1
  /\ call.result.entries[1] = call.before[2]

\* The list without its i-th element.
Without(list, i) == [j \in 1..(Len(list) - 1) |-> IF j < i THEN list[j] ELSE list[j + 1]]

\* rejectPairing of the synchronous store (part_006, lines 285-309) applied
\* to the file of two requests: a code that equals a request's up to letter
\* case removes that request and no other; any other code throws
\* PairingNotFoundError and nothing is written.
RejectSyncFrame ==
  \A code \in CodeInputs, t \in {0, PAIRING_TTL_MS} :
    LET plan == rejectPairingSync(TwoPending, code, "telegram", t)
        hits == {i \in 1..Len(TwoPending) : TwoPending[i].code.id = code.id}
    IN IF hits # {}
       THEN plan.act = "write" /\ \E i \in hits : plan.pend = Without(TwoPending, i)
       ELSE plan.act = "throw" /\ plan.ret.err = "PairingNotFoundError"

\* C34: approvePairing and rejectPairing find the request whose code equals
\* the one given up to letter case and remove that request only: the other
\* requests that are not expired stay as they are; when no request matches,
\* the requests that are not expired stay as they are, approve returns null
\* and reject returns false.
C34_RemovesTheMatchOnly ==
  /\ RejectSyncFrame
  /\ (call.kind \in {"approve", "reject"} /\ call.ret # "parse")
       => LET live == Live(call.before, call.at)
              hits == {i \in 1..Len(live) : live[i].code.id = call.input.id}
          IN /\ readStore(store) = call.after
             /\ IF hits # {}
                THEN \E i \in hits :
                       /\ Live(call.after, call.at) = Without(live, i)
                       /\ IF call.kind = "approve"
                          THEN call.ret = "entry" /\ call.result.entries = <<live[i]>>
                          ELSE call.ret = "true"
                ELSE /\ Live(call.after, call.at) = live
                     /\ call.ret = IF call.kind = "approve" THEN "null" ELSE "false"

\* A code typed in lower case removed the first of two pending requests, and
\* the second stayed.
C34_Witness ==
  /\ call.kind = "reject" /\ call.ret = "true" /\ call.input.lc
  /\ Len(call.before) = 2 /\ call.before[1].code.id = call.input.id
  /\ call.after = <<call.before[2]>>

\* ------------------------------------------------------------------------
\* upsertPairingRequest of the upsert store (part_006, lines 31-68) as one
\* call on a file, run from loadPairingStore to writePairingStore with no
\* other process in between.

\* The senders: those of the file, and one more.
QuotaSenders == UpsertUsers \cup {"u5"}

\* The files the call finds: up to MAX_PENDING_PER_CHAT + 1 requests of
\* different senders, each from either chat, issued at time 0 or 1.
QuotaFiles ==
  UNION {{[i \in 1..n |-> [code |-> CodeStr(i, FALSE), chatId |-> chats[i],
                           userId |-> <<"u1", "u2", "u3", "u4">>[i],
                           createdAt |-> created[i], expiresAt |-> created[i] + PAIRING_TTL_MS]] :
            chats \in [1..n -> UpsertChats], created \in [1..n -> {0, 1}]} :
         n \in 0..(MAX_PENDING_PER_CHAT + 1)}

UpsertPairingRequest ==
  \E k \in UpsertChats, u \in QuotaSenders :
    LET requests == normalizeRequests(bfile.entries, now).requests
    IN \E code \in UpsertCodeChoices(requests, u, k) :
         LET plan == upsertPairingRequest(requests, u, k, now, code)
         IN /\ call.kind = "none"
            /\ bfile' = Doc(plan.pend)
            /\ call' = [kind |-> "upsert", input |-> [chatId |-> k, userId |-> u],
                        file |-> bfile, at |-> now, before |-> bfile.entries,
                        after |-> plan.pend, ret |-> plan.ret.kind, result |-> plan.ret,
                        wrote |-> TRUE]
            /\ UNCHANGED <<now, ticks, crashes, lock, store, tmp, pc, op, ops, start, pend, ret,
                           obs, cfile, afile, alock, bfile0, efile, botConfig, decision,
                           approved, ledger, inbox>>

InitQuota ==
  /\ InitHarness(1)
  /\ store = Absent
  /\ bfile \in {Doc(requests) : requests \in QuotaFiles}
  /\ bfile0 = bfile

NextQuota ==
  \/ UpsertPairingRequest
  \/ TickUpsert

SpecQuota == InitQuota /\ [][NextQuota]_vars

\* C32: an upsertPairingRequest of a sender without a request, for a chat
\* holding MAX_PENDING_PER_CHAT requests that are not expired, removes one
\* request of that chat, one that expires no later than the others of the
\* chat, appends the new request, and leaves every other request as it was.
C32_EvictsSoonest ==
  LET live == Live(call.before, call.at)
      chat == call.input.chatId
  IN (/\ call.kind = "upsert"
      /\ \A i \in 1..Len(live) : live[i].userId # call.input.userId
      /\ Len(InChat(live, chat)) = MAX_PENDING_PER_CHAT)
       => \E i \in 1..Len(live) :
            /\ live[i].chatId = chat
            /\ \A j \in 1..Len(live) : live[j].chatId = chat => live[i].expiresAt <= live[j].expiresAt
            /\ Len(call.after) = Len(live)
            /\ SubSeq(call.after, 1, Len(live) - 1) = Without(live, i)
            /\ call.after[Len(live)].userId = call.input.userId
            /\ call.after[Len(live)].chatId = chat
            /\ call.after[Len(live)].expiresAt = call.at + PAIRING_TTL_MS
            /\ call.result.entries = <<call.after[Len(live)]>>
            /\ bfile = Doc(call.after)

\* A fourth sender wrote from a chat whose first request was the oldest,
\* while another chat held a request: the oldest went, the other three
\* requests stayed.
C32_Witness ==
  /\ call.kind = "upsert" /\ Len(call.before) = 4 /\ Len(call.after) = 4
  /\ Len(InChat(call.before, call.input.chatId)) = 3
  /\ \A i \in 1..4 : call.before[i].userId # call.input.userId
  /\ \E i \in 2..4 : /\ call.before[i].chatId = call.input.chatId
                     /\ \A j \in 1..4 : j # i => call.before[i].expiresAt < call.before[j].expiresAt
  /\ Live(call.before, call.at) = call.before

\* The request is in the list, with its code.
Kept(list, r) == \E j \in 1..Len(list) : list[j].code = r.code

\* C37: a request that is not expired when a store operation starts is in
\* the store, with its code, when the operation ends, unless the operation
\* is the approve or the reject of its code.
C37_LeavesOnlyByCommand ==
  call.kind \in {"generate", "list", "approve", "reject", "clean", "upsert"}
    => LET live == Live(call.before, call.at)
       IN \A i \in 1..Len(live) :
            \/ call.kind \in {"approve", "reject"} /\ live[i].code.id = call.input.id
            \/ Kept(call.after, live[i])

\* upsertPairingRequest made room for a sender without a request by
\* dropping r: r was of the chat written from, the chat held
\* MAX_PENDING_PER_CHAT requests or more, and no request of the chat that
\* stayed expires before r.
Evicted(live, r) ==
  /\ call.kind = "upsert"
  /\ \A k \in 1..Len(live) : live[k].userId # call.input.userId
  /\ r.chatId = call.input.chatId
  /\ Len(InChat(live, r.chatId)) >= MAX_PENDING_PER_CHAT
  /\ \A j \in 1..Len(call.after) :
       (call.after[j].chatId = r.chatId /\ call.after[j].userId # call.input.userId)
         => r.expiresAt <= call.after[j].expiresAt
  /\ Len(InChat(call.after, r.chatId)) = MAX_PENDING_PER_CHAT

\* C37, amended: a request that is not expired when a store operation
\* starts is in the store, with its code, when the operation ends, unless
\* the operation is the approve or the reject of its code, or an
\* upsertPairingRequest that evicted it as the soonest to expire of a chat
\* at its quota.
C37_LeavesByCommandOrEviction ==
  call.kind \in {"generate", "list", "approve", "reject", "clean", "upsert"}
    => LET live == Live(call.before, call.at)
       IN \A i \in 1..Len(live) :
            \/ call.kind \in {"approve", "reject"} /\ live[i].code.id = call.input.id
            \/ Kept(call.after, live[i])
            \/ Evicted(live, live[i])

\* A fifth sender wrote from a chat holding four requests: two were
\* evicted, two stayed.
C37_Witness ==
  /\ call.kind = "upsert" /\ call.input.userId = "u5"
  /\ Len(InChat(Live(call.before, call.at), call.input.chatId)) = 4
  /\ Len(call.after) = 3
  /\ Kept(call.after, call.before[4]) /\ ~Kept(call.after, call.before[1])


\* ------------------------------------------------------------------------
\* Who deletes LOCK_FILE (pairing-store.ts, lines 259-262, 275-278, 331-364)

\* The step unlinks LOCK_FILE while the path names a file.
DeletesLock == lock.exists /\ ~lock'.exists

\* p leaves releaseLock, or the catch block of a failed handle.writeFile, in
\* this step: the two places that unlink on behalf of the file's creator.
ReleasesBy(p) == pc[p] \in {"release", "lockwrite"} /\ pc'[p] # pc[p]

\* p runs the fs.unlink of the reclaim branch in this step.
ReclaimsBy(p) == pc[p] = "unlink" /\ pc'[p] = "open"

\* What the reclaim branch tests, evaluated on the file the path names now.
StaleNow ==
  \/ lock.pid # NoProc /\ ~isProcessRunning(lock.pid)
  \/ lock.pid = NoProc /\ now - lock.mtime > LOCK_TIMEOUT_MS

\* C35: a step that deletes the lock file is the release of the process
\* that created that file, or the unlink of a contender at a moment when
\* the file's owner is not alive or the file has no owner and is older than
\* LOCK_TIMEOUT_MS; and no such step but the holder's own release deletes
\* a file that a live process holds.
C35_DeletedByOwnerOrWhenStale ==
  [][DeletesLock =>
       /\ \/ \E p \in Procs : ReleasesBy(p) /\ lock.creator = p
          \/ \E p \in Procs : ReclaimsBy(p) /\ StaleNow
       /\ \A q \in Procs :
            (Holds(q) /\ Alive(q) /\ lock.creator = q) => ReleasesBy(q)]_vars


\* ------------------------------------------------------------------------
\* File accesses and lock scopes

\* p reads or writes PAIRING_PATH of the upsert store in this step:
\* loadPairingStore's fs.readFile, or one half of writePairingStore's
\* fs.writeFile (part_006, lines 70-92).
TouchesPairingPath(p) ==
  /\ pc[p] \in {"b_read", "b_ltrunc", "b_lwrite", "b_trunc", "b_write"}
  /\ pc'[p] # pc[p]

\* p reads or writes STORE_FILE of pairing-store.ts, or ALLOWLIST_PATH of
\* part_008, in this step.
TouchesLockedFile(p) ==
  /\ pc[p] \in {"h_read", "w_open", "w_write", "w_rename", "a_read", "a_trunc", "a_write"}
  /\ pc'[p] # pc[p]

\* p is inside an acquire/release scope: it created a lock file and has
\* not yet run its release.
InLockScope(p) == Holds(p) \/ AllowHolds(p)

\* C36: every step of a store operation that reads or writes the store's
\* backing file is taken by a process that is inside an acquire/release
\* scope at that moment.
C36_TouchesOnlyUnderLock ==
  [][\A p \in Procs :
       (TouchesPairingPath(p) \/ TouchesLockedFile(p)) => InLockScope(p)]_vars


\* ------------------------------------------------------------------------
\* Loading a document, element by element (pairing-store.ts, lines 145-164
\* and 209-233; part_008, lines 91-116 and 170-192).
\*
\* An element of a parsed pairing document is a JSON value: "json" is its
\* kind, "entry" the fields an object carries and "bad" the fields whose
\* value has another type than PairingEntry declares (a missing field is
\* one of them).

\* The longest document loaded.
MaxElements == 2

JsonValue(json, bad, entry) == [json |-> json, bad |-> bad, entry |-> entry]

LoadEntries ==
  {[code |-> CodeStr(1, TRUE), chatId |-> "k1", userId |-> "u1", username |-> "alice",
    createdAt |-> 0, expiresAt |-> PAIRING_TTL_MS],
   [code |-> CodeStr(2, FALSE), chatId |-> "k1", userId |-> "u2", username |-> "",
    createdAt |-> 0, expiresAt |-> 0]}

NoFields == CHOOSE e \in LoadEntries : e.expiresAt = 0

PairingElements ==
  {JsonValue("object", bad, e) :
     bad \in {{}, {"code"}, {"expiresAt"}, {"username"}, {"userId", "createdAt"}},
     e \in LoadEntries}
  \cup {JsonValue(json, {}, NoFields) : json \in {"null", "number", "string", "array"}}

\* "typeof value" of an element.
typeofValue(value) ==
  IF value.json \in {"object", "array", "null"} THEN "object" ELSE value.json

\* "typeof entry.f": an array has none of the fields.
typeofField(value, f) ==
  IF value.json # "object" \/ f \in value.bad THEN "other"
  ELSE IF f \in {"createdAt", "expiresAt"} THEN "number" ELSE "string"

\* What a function returns: a value, null, or the error it threw.
Value(v) == [kind |-> "value", value |-> v]
Null == [kind |-> "null", value |-> NoFields]
TypeError == [kind |-> "threw", value |-> NoFields]

\* normalizeEntry without "|| value === null": reading entry.code of null
\* throws a TypeError.
normalizeEntryOfNull(value) ==
  IF typeofValue(value) # "object" THEN Null
  ELSE IF value.json = "null" THEN TypeError
  ELSE IF \/ typeofField(value, "code") # "string"
          \/ typeofField(value, "chatId") # "string"
          \/ typeofField(value, "userId") # "string"
          \/ typeofField(value, "createdAt") # "number"
          \/ typeofField(value, "expiresAt") # "number"
       THEN Null
       ELSE Value([value.entry EXCEPT
                     !.code = toUpperCase(value.entry.code),
                     !.username = IF typeofField(value, "username") = "string"
                                  THEN value.entry.username ELSE ""])

\* normalizeEntry on an unknown value.
normalizeEntryOf(value) ==
  IF typeofValue(value) # "object" \/ value.json = "null" THEN Null
  ELSE IF \/ typeofField(value, "code") # "string"
          \/ typeofField(value, "chatId") # "string"
          \/ typeofField(value, "userId") # "string"
          \/ typeofField(value, "createdAt") # "number"
          \/ typeofField(value, "expiresAt") # "number"
       THEN Null
       ELSE Value([value.entry EXCEPT
                     !.code = toUpperCase(value.entry.code),
                     !.username = IF typeofField(value, "username") = "string"
                                  THEN value.entry.username ELSE ""])

\* readStore on a document of JSON values: the candidates are the array
\* itself, or the "pairings" array of an object (st "wrapped"); any other
\* parsed value gives no candidates, a missing file no entries; what
\* JSON.parse throws is rethrown, and so is an error thrown inside
\* "candidates.map(normalizeEntry).filter((entry) => entry !== null)".
readStoreOf(file) ==
  LET candidates == IF file.st \in {"ok", "wrapped"} THEN file.entries ELSE <<>>
      mapped == [i \in 1..Len(candidates) |-> normalizeEntryOf(candidates[i])]
      kept == SelectSeq(mapped, LAMBDA r : r.kind = "value")
  IN IF file.st = "partial" THEN Threw("parse", 0)
     ELSE IF file.st = "absent" THEN RetEntries(<<>>, 0)
     ELSE IF \E i \in 1..Len(mapped) : mapped[i].kind = "threw" THEN Threw("type", 0)
     ELSE RetEntries([i \in 1..Len(kept) |-> kept[i].value], 0)

\* An element of a parsed allow-list document: its "type", and its "value"
\* with the type of that value ("number" for a JSON number, written in
\* decimal; "undefined" when the field is missing).
AllowValue(json, type, vtype, value) == [json |-> json, type |-> type, vtype |-> vtype, value |-> value]

AllowElements ==
  {AllowValue("object", "wildcard", "string", "*"),
   AllowValue("object", "wildcard", "undefined", ""),
   AllowValue("object", "username", "string", "Alice"),
   AllowValue("object", "username", "string", " "),
   AllowValue("object", "username", "number", "42"),
   AllowValue("object", "username", "undefined", ""),
   AllowValue("object", "id", "string", "42"),
   AllowValue("object", "id", "string", "alice"),
   AllowValue("object", "id", "number", "42"),
   AllowValue("object", "id", "number", "-100"),
   AllowValue("object", "id", "undefined", ""),
   AllowValue("object", "group", "string", "-100"),
   AllowValue("array", "", "undefined", ""),
   AllowValue("null", "", "undefined", ""),
   AllowValue("string", "", "undefined", "")}

\* normalizeExistingEntry on an unknown value; type "invalid" stands for
\* whatever is thrown: the Errors of lines 93, 102, 109 and 114, that of
\* normalizeId, and the TypeError of ".trim()" on a value that is no string.
normalizeExistingEntryOf(e) ==
  LET invalid == [type |-> "invalid", value |-> ""]
  IN IF e.json \in {"null", "string", "number"} THEN invalid
     ELSE IF e.json = "array" THEN invalid
     ELSE IF e.type = "wildcard" THEN [type |-> "wildcard", value |-> "*"]
     ELSE IF e.type = "username"
          THEN IF e.vtype = "string" THEN normalizeExistingEntry([type |-> "username", value |-> e.value])
               ELSE invalid
     ELSE IF e.type = "id"
          THEN IF e.vtype = "undefined" THEN invalid
               ELSE normalizeExistingEntry([type |-> "id", value |-> e.value])
     ELSE invalid

\* readAllowlistFile: a parsed value that is no array, and a missing file,
\* read as no entries; an entry normalizeExistingEntry throws on is skipped.
readAllowlistFile(file) ==
  IF file.st = "partial" THEN Threw("parse", 0)
  ELSE IF file.st # "ok" THEN RetEntries(<<>>, 0)
  ELSE LET mapped == [i \in 1..Len(file.entries) |-> normalizeExistingEntryOf(file.entries[i])]
       IN RetEntries(SelectSeq(mapped, LAMBDA e : e.type # "invalid"), 0)

\* The documents of at most n elements.
RECURSIVE DocsOf(_, _)
DocsOf(elements, n) ==
  IF n = 0 THEN {<<>>}
  ELSE DocsOf(elements, n - 1) \cup {Append(d, e) : d \in DocsOf(elements, n - 1), e \in elements}

\* writeStore's JSON.stringify({ pairings: entries }): a username that is
\* undefined is left out.
Stringify(entries) ==
  [st |-> "wrapped",
   entries |-> [i \in 1..Len(entries) |->
                  JsonValue("object", IF entries[i].username = "" THEN {"username"} ELSE {}, entries[i])]]

\* The documents the files hold at the start: arrays, and for the pairing
\* store objects with a "pairings" array; a missing file.
PairingFiles ==
  {[st |-> st, entries |-> d] : st \in {"ok", "wrapped"}, d \in DocsOf(PairingElements, MaxElements)}

AllowFiles == {Doc(d) : d \in DocsOf(AllowElements, MaxElements)}

InitLoad ==
  \/ InitHarness(0) /\ bfile = Absent /\ bfile0 = Absent /\ store \in PairingFiles
  \/ /\ InitOf({}, {DefaultConfig})
     /\ bfile = Absent /\ bfile0 = Absent /\ cfile = Absent /\ efile = Absent
     /\ ledger = NoLedger
     /\ afile \in AllowFiles

offLoad == <<now, ticks, crashes, lock, tmp, pc, op, ops, start, pend, ret, obs, bfile, cfile,
             alock, bfile0, efile, botConfig, decision, approved, ledger, inbox>>

Loaded(kind, file, r) ==
  [kind |-> kind, file |-> file, result |-> r, ret |-> IF r.kind = "threw" THEN r.err ELSE r.kind]

\* readStore, as every operation of pairing-store.ts starts.
ReadStore ==
  /\ afile = Absent
  /\ call' = Loaded("readStore", store, readStoreOf(store))
  /\ UNCHANGED <<store, afile, offLoad>>

\* getPendingPairings on what readStore gave: readStore, pruneExpired, and
\* writeStore when a request had expired.
ReadAndList ==
  /\ afile = Absent
  /\ LET read == readStoreOf(store)
         plan == IF read.kind = "threw" THEN Plan("throw", <<>>, read)
                 ELSE getPendingPairings(read.entries, now)
     IN /\ store' = IF plan.act = "write" THEN Stringify(plan.pend) ELSE store
        /\ call' = Loaded("list", store, plan.ret)
  /\ UNCHANGED <<afile, offLoad>>

\* loadAllowlist: readAllowlistFile under the lock.
LoadAllowlist ==
  /\ store = Absent
  /\ call' = Loaded("loadAllowlist", afile, readAllowlistFile(afile))
  /\ UNCHANGED <<store, afile, offLoad>>

\* isAllowed on what readAllowlistFile gave.
ReadAndMatch ==
  /\ store = Absent
  /\ \E who \in {Alice, Dave} :
       LET read == readAllowlistFile(afile)
       IN call' = Loaded("isAllowed", afile,
                         IF read.kind = "threw" THEN read
                         ELSE isAllowed(read.entries, Text(trim(who.userId)), who.username, now).ret)
  /\ UNCHANGED <<store, afile, offLoad>>

NextLoad == ReadStore \/ ReadAndList \/ LoadAllowlist \/ ReadAndMatch

SpecLoad == InitLoad /\ [][NextLoad]_vars

\* The elements that are entries: an object whose required fields have the
\* types PairingEntry declares (pairing-store.ts, lines 18-25); an object
\* whose type is one of AllowlistEntryType with a value of that type
\* (part_008, lines 12-17).
WellFormedPairing(value) ==
  value.json = "object" /\ value.bad \cap {"code", "chatId", "userId", "createdAt", "expiresAt"} = {}

WellFormedAllow(e) ==
  /\ e.json = "object"
  /\ \/ e.type = "wildcard"
     \/ e.type = "username" /\ e.vtype = "string" /\ e.value \notin {"", " "}
     \/ e.type = "id" /\ e.vtype \in {"string", "number"} /\ e.value \in Digits

\* The stored form of a well-formed element.
PairingEntryOf(value) ==
  [value.entry EXCEPT !.code = [id |-> value.entry.code.id, lc |-> FALSE],
                      !.username = IF "username" \in value.bad THEN "" ELSE value.entry.username]

AllowEntryOf(e) ==
  [type |-> e.type,
   value |-> IF e.type = "wildcard" THEN "*"
             ELSE IF e.type = "username" THEN toLowerCase(Str(e.value)) ELSE e.value]

WellFormedOf(file) ==
  LET good == SelectSeq(file.entries, WellFormedPairing)
  IN [i \in 1..Len(good) |-> PairingEntryOf(good[i])]

WellFormedAllowOf(file) ==
  LET good == SelectSeq(file.entries, WellFormedAllow)
  IN [i \in 1..Len(good) |-> AllowEntryOf(good[i])]

\* C38: loading a document whose list mixes well-formed and malformed
\* elements returns the well-formed ones, in order and in stored form, and
\* does not throw, in the pairing store and in the allow-list store; the
\* operations that start with the load (list, isAllowed) do not throw on
\* such a document either, and list returns the well-formed requests that
\* are not expired.
C38_SkipsMalformedEntries ==
  /\ call.kind = "readStore" =>
        /\ call.ret = "entries"
        /\ call.result.entries = WellFormedOf(call.file)
  /\ call.kind = "list" =>
        /\ call.ret = "entries"
        /\ call.result.entries = Live(WellFormedOf(call.file), now)
  /\ call.kind = "loadAllowlist" =>
        /\ call.ret = "entries"
        /\ call.result.entries = WellFormedAllowOf(call.file)
  /\ call.kind = "isAllowed" => call.ret \in {"true", "false"}

\* readStore has loaded a document of a malformed and a well-formed
\* element and returned the one entry.
C38_Witness ==
  /\ call.kind = "readStore"
  /\ Len(call.file.entries) = 2
  /\ ~WellFormedPairing(call.file.entries[1])
  /\ call.file.entries[1].json = "null"
  /\ WellFormedPairing(call.file.entries[2])
  /\ call.file.entries[2].entry.code.lc
  /\ Len(call.result.entries) = 1
  /\ call.result.entries[1].code = [id |-> 1, lc |-> FALSE]


\* ------------------------------------------------------------------------
\* Corrupt documents (pairing-store.ts, lines 145-164)

\* The store file holds text JSON.parse rejects, or a parsed value that is
\* neither an array nor an object with a "pairings" array.
Corrupt(file) == file.st \in {"partial", "shape"}

\* C39: an operation that finds the store's document corrupt, unparseable
\* or parseable but not of the expected top-level shape, throws and does not
\* write the file; it never goes on as if the store were empty.
C39_CorruptStoreFails ==
  (call.kind # "none" /\ Corrupt(call.file)) =>
    /\ call.ret = "parse"
    /\ ~call.wrote
    /\ store = call.file

============================================================================
